---- MODULE Spec2Model ----
(***************************************************************************)
(* Steady-state thermal solvers of laser-tms (src/src/solvers.py).         *)
(*                                                                         *)
(* The solvers are pure functions over Python floats.  A float is modelled *)
(* as an exact rational [num, den] kept in lowest terms with den > 0, so   *)
(* that division, comparison and the zero tests of the code are the real   *)
(* ones; rounding error of the binary representation is not modelled.      *)
(* A call either returns a value or raises a Python exception; the kind of *)
(* the exception is part of the outcome.                                   *)
(***************************************************************************)
EXTENDS Integers, Sequences, FiniteSets, TLC

\* call, outcome: one call of a function of the core and what it gave
\* threads, heap:  calls made by concurrent threads and the objects they build
\* pass, prev:     a pass of the application script and the pass before it
VARIABLES call, outcome, threads, heap, pass, prev

vars == <<call, outcome, threads, heap, pass, prev>>

callVars == <<call, outcome>>

threadVars == <<threads, heap>>

passVars == <<pass, prev>>

(***************************************************************************)
(* Bounds of the input grid: numerators -MaxNum..MaxNum over               *)
(* denominators 1..MaxDen.                                                 *)
(***************************************************************************)
MaxNum == 3
MaxDen == 2

(***************************************************************************)
(* Rational arithmetic standing for Python float arithmetic.               *)
(***************************************************************************)
Abs(n) == IF n < 0 THEN -n ELSE n

RECURSIVE GCD(_, _)
GCD(a, b) == IF b = 0 THEN a ELSE GCD(b, a % b)

Rat(n, d) ==
    LET s == IF d < 0 THEN -1 ELSE 1
        g == GCD(Abs(n), Abs(d))
    IN  [num |-> (s * n) \div g, den |-> (s * d) \div g]

Zero == Rat(0, 1)

\* The sums and comparisons go through the least common denominator and the
\* products cancel crosswise first, so that the integers stay small.
LCM(m, n) == (m \div GCD(m, n)) * n

RAdd(a, b) ==
    LET l == LCM(a.den, b.den)
    IN  Rat(a.num * (l \div a.den) + b.num * (l \div b.den), l)

RSub(a, b) ==
    LET l == LCM(a.den, b.den)
    IN  Rat(a.num * (l \div a.den) - b.num * (l \div b.den), l)

RMul(a, b) ==
    LET g1 == GCD(Abs(a.num), b.den)
        g2 == GCD(Abs(b.num), a.den)
    IN  Rat((a.num \div g1) * (b.num \div g2), (a.den \div g2) * (b.den \div g1))

\* a / b for b # 0 (Python raises ZeroDivisionError for b = 0, see the solvers)
RDiv(a, b) == RMul(a, Rat(b.den, b.num))

RLt(a, b) ==
    LET l == LCM(a.den, b.den)
    IN  a.num * (l \div a.den) < b.num * (l \div b.den)

RLe(a, b) ==
    LET l == LCM(a.den, b.den)
    IN  a.num * (l \div a.den) <= b.num * (l \div b.den)

RGt(a, b) == RLt(b, a)

RGe(a, b) == RLe(b, a)

IsZero(a) == a.num = 0

\* Python's max(a, b): the first argument unless the second is greater
PyMax(a, b) == IF RGt(b, a) THEN b ELSE a

(***************************************************************************)
(* constants.py                                                            *)
(***************************************************************************)
AIR_CP == Rat(1005, 1)

AIR_DENSITY == Rat(119, 100)

WATER_CP == Rat(4186, 1)

WATER_DENSITY == Rat(998, 1)

One == Rat(1, 1)

\* x ** 3
Cube(x) == RMul(RMul(x, x), x)

FT_TO_M == Rat(3048, 10000)

M_TO_FT == RDiv(One, FT_TO_M)

FT3_TO_M3 == Cube(FT_TO_M)

M3_TO_FT3 == Cube(M_TO_FT)

M3S_TO_CFM == Rat(211888, 100)

CFM_TO_M3S == RDiv(One, M3S_TO_CFM)

KGS_TO_LPM_WATER == RMul(RDiv(Rat(60, 1), WATER_DENSITY), Rat(1000, 1))

LPM_TO_GPM == Rat(264172, 1000000)

GPM_TO_LPM == RDiv(One, LPM_TO_GPM)

(***************************************************************************)
(* units.py                                                                *)
(***************************************************************************)
ft_to_m(ft) == RMul(ft, FT_TO_M)

\* slip: the factor of the other direction
m_to_ft_wrong_factor(m) == RMul(m, FT_TO_M)

m_to_ft(m) == RMul(m, M_TO_FT)

ft3_to_m3(ft3) == RMul(ft3, FT3_TO_M3)

m3_to_ft3(m3) == RMul(m3, M3_TO_FT3)

cfm_to_m3s(cfm) == RMul(cfm, CFM_TO_M3S)

m3s_to_cfm(m3s) == RMul(m3s, M3S_TO_CFM)

\* slip: the 60 seconds of a minute left out
kgs_to_lpm_per_second(kgs) == RMul(kgs, RMul(RDiv(One, WATER_DENSITY), Rat(1000, 1)))

kgs_to_lpm(kgs) == RMul(kgs, KGS_TO_LPM_WATER)

lpm_to_gpm(lpm) == RMul(lpm, LPM_TO_GPM)

gpm_to_lpm(gpm) == RMul(gpm, GPM_TO_LPM)

\* the conversion named f applied to x
Convert(f, x) ==
    CASE f = "ft_to_m" -> ft_to_m(x)
      [] f = "m_to_ft" -> m_to_ft(x)
      [] f = "ft3_to_m3" -> ft3_to_m3(x)
      [] f = "m3_to_ft3" -> m3_to_ft3(x)
      [] f = "cfm_to_m3s" -> cfm_to_m3s(x)
      [] f = "m3s_to_cfm" -> m3s_to_cfm(x)
      [] f = "kgs_to_lpm" -> kgs_to_lpm(x)
      [] f = "lpm_to_gpm" -> lpm_to_gpm(x)
      [] f = "gpm_to_lpm" -> gpm_to_lpm(x)

(***************************************************************************)
(* SolverResult: every field defaults to 0.0, warnings to a new empty list *)
(***************************************************************************)
SolverResult ==
    [airflow_m3s |-> Zero, airflow_kgs |-> Zero, coolant_kgs |-> Zero,
     coil_leaving_temp_c |-> Zero, heater_required_w |-> Zero,
     coil_utilization_pct |-> Zero, warnings |-> <<>>]

\* The outcome of a call: a returned value or a raised exception.
Return(v) == [status |-> "returned", exc |-> "none", value |-> v]

Raise(e) == [status |-> "raised", exc |-> e, value |-> <<>>]

NoOutcome == [status |-> "none", exc |-> "none", value |-> <<>>]

\* A float division x / y as Python evaluates it.
DivRaises(y) == IsZero(y)

(***************************************************************************)
(* solve_airflow                                                           *)
(***************************************************************************)
\* slip: the density multiplied instead of divided
solve_airflow_times_density(q_total_w, delta_t_air_c, air_cp, air_density) ==
    IF IsZero(delta_t_air_c) THEN Raise("ValueError")
    ELSE IF DivRaises(RMul(air_cp, delta_t_air_c)) THEN Raise("ZeroDivisionError")
    ELSE LET m_dot == RDiv(q_total_w, RMul(air_cp, delta_t_air_c))
             v_dot == RMul(m_dot, air_density)
         IN  Return([SolverResult EXCEPT !.airflow_m3s = v_dot,
                                         !.airflow_kgs = m_dot])

\* slip: the density taken for the specific heat, q / (rho * dT)
solve_airflow_density_for_cp(q_total_w, delta_t_air_c, air_cp, air_density) ==
    IF IsZero(delta_t_air_c) THEN Raise("ValueError")
    ELSE IF DivRaises(RMul(air_density, delta_t_air_c)) THEN Raise("ZeroDivisionError")
    ELSE LET m_dot == RDiv(q_total_w, RMul(air_density, delta_t_air_c))
         IN  IF DivRaises(air_density) THEN Raise("ZeroDivisionError")
             ELSE LET v_dot == RDiv(m_dot, air_density)
                  IN  Return([SolverResult EXCEPT !.airflow_m3s = v_dot,
                                                  !.airflow_kgs = m_dot])

\* slip: the parentheses of the denominator left out, q / c_p * dT
solve_airflow_no_parens(q_total_w, delta_t_air_c, air_cp, air_density) ==
    IF IsZero(delta_t_air_c) THEN Raise("ValueError")
    ELSE IF DivRaises(air_cp) THEN Raise("ZeroDivisionError")
    ELSE LET m_dot == RMul(RDiv(q_total_w, air_cp), delta_t_air_c)
         IN  IF DivRaises(air_density) THEN Raise("ZeroDivisionError")
             ELSE LET v_dot == RDiv(m_dot, air_density)
                  IN  Return([SolverResult EXCEPT !.airflow_m3s = v_dot,
                                                  !.airflow_kgs = m_dot])

\* slip: the density subtracted instead of divided
solve_airflow_minus_density(q_total_w, delta_t_air_c, air_cp, air_density) ==
    IF IsZero(delta_t_air_c) THEN Raise("ValueError")
    ELSE IF DivRaises(RMul(air_cp, delta_t_air_c)) THEN Raise("ZeroDivisionError")
    ELSE LET m_dot == RDiv(q_total_w, RMul(air_cp, delta_t_air_c))
             v_dot == RSub(m_dot, air_density)
         IN  Return([SolverResult EXCEPT !.airflow_m3s = v_dot,
                                         !.airflow_kgs = m_dot])

solve_airflow(q_total_w, delta_t_air_c, air_cp, air_density) ==
    IF IsZero(delta_t_air_c) THEN Raise("ValueError")
    ELSE IF DivRaises(RMul(air_cp, delta_t_air_c)) THEN Raise("ZeroDivisionError")
    ELSE LET m_dot == RDiv(q_total_w, RMul(air_cp, delta_t_air_c))
         IN  IF DivRaises(air_density) THEN Raise("ZeroDivisionError")
             ELSE LET v_dot == RDiv(m_dot, air_density)
                  IN  Return([SolverResult EXCEPT !.airflow_m3s = v_dot,
                                                  !.airflow_kgs = m_dot])

(***************************************************************************)
(* solve_coolant_flow                                                      *)
(***************************************************************************)
\* slip: the zero test of delta_t_water_c left out
solve_coolant_flow_unguarded(q_total_w, delta_t_water_c, water_cp) ==
    IF DivRaises(RMul(water_cp, delta_t_water_c)) THEN Raise("ZeroDivisionError")
    ELSE LET m_dot == RDiv(q_total_w, RMul(water_cp, delta_t_water_c))
         IN  Return([SolverResult EXCEPT !.coolant_kgs = m_dot])

\* slip: the parentheses of the denominator left out, q / c_p * dT
solve_coolant_flow_no_parens(q_total_w, delta_t_water_c, water_cp) ==
    IF IsZero(delta_t_water_c) THEN Raise("ValueError")
    ELSE IF DivRaises(water_cp) THEN Raise("ZeroDivisionError")
    ELSE LET m_dot == RMul(RDiv(q_total_w, water_cp), delta_t_water_c)
         IN  Return([SolverResult EXCEPT !.coolant_kgs = m_dot])

solve_coolant_flow(q_total_w, delta_t_water_c, water_cp) ==
    IF IsZero(delta_t_water_c) THEN Raise("ValueError")
    ELSE IF DivRaises(RMul(water_cp, delta_t_water_c)) THEN Raise("ZeroDivisionError")
    ELSE LET m_dot == RDiv(q_total_w, RMul(water_cp, delta_t_water_c))
         IN  Return([SolverResult EXCEPT !.coolant_kgs = m_dot])

(***************************************************************************)
(* solve_coil_leaving_temp                                                 *)
(***************************************************************************)
\* slip: the zero test made on the load instead of the mass flow
solve_coil_leaving_temp_tests_load(q_total_w, airflow_kgs, return_air_temp_c, air_cp) ==
    IF IsZero(q_total_w) THEN Raise("ValueError")
    ELSE IF DivRaises(RMul(airflow_kgs, air_cp)) THEN Raise("ZeroDivisionError")
    ELSE LET delta_t == RDiv(q_total_w, RMul(airflow_kgs, air_cp))
             t_out == RSub(return_air_temp_c, delta_t)
         IN  Return([SolverResult EXCEPT !.coil_leaving_temp_c = t_out])

\* slip: the temperature drop added instead of subtracted
solve_coil_leaving_temp_adds(q_total_w, airflow_kgs, return_air_temp_c, air_cp) ==
    IF IsZero(airflow_kgs) THEN Raise("ValueError")
    ELSE IF DivRaises(RMul(airflow_kgs, air_cp)) THEN Raise("ZeroDivisionError")
    ELSE LET delta_t == RDiv(q_total_w, RMul(airflow_kgs, air_cp))
             t_out == RAdd(return_air_temp_c, delta_t)
         IN  Return([SolverResult EXCEPT !.coil_leaving_temp_c = t_out])

\* slip: the solver rejects a leaving temperature under chilled water
\* supply plus approach of the default plant (15 + 2)
solve_coil_leaving_temp_checks_approach(q_total_w, airflow_kgs, return_air_temp_c, air_cp) ==
    IF IsZero(airflow_kgs) THEN Raise("ValueError")
    ELSE IF DivRaises(RMul(airflow_kgs, air_cp)) THEN Raise("ZeroDivisionError")
    ELSE LET t == RSub(return_air_temp_c, RDiv(q_total_w, RMul(airflow_kgs, air_cp)))
         IN  IF RLt(t, Rat(17, 1)) THEN Raise("ValueError")
             ELSE Return([SolverResult EXCEPT !.coil_leaving_temp_c = t])

solve_coil_leaving_temp(q_total_w, airflow_kgs, return_air_temp_c, air_cp) ==
    IF IsZero(airflow_kgs) THEN Raise("ValueError")
    ELSE IF DivRaises(RMul(airflow_kgs, air_cp)) THEN Raise("ZeroDivisionError")
    ELSE LET delta_t == RDiv(q_total_w, RMul(airflow_kgs, air_cp))
             t_out == RSub(return_air_temp_c, delta_t)
         IN  Return([SolverResult EXCEPT !.coil_leaving_temp_c = t_out])

(***************************************************************************)
(* solve_heater_requirement                                                *)
(***************************************************************************)
\* slip: the clamp at zero left out
solve_heater_requirement_unclamped(q_load_w, ua_value, ambient_temp_c, setpoint_c) ==
    LET heat_loss_w == RMul(ua_value, RSub(setpoint_c, ambient_temp_c))
        net_deficit == RSub(heat_loss_w, q_load_w)
    IN  Return([SolverResult EXCEPT !.heater_required_w = net_deficit])

\* slip: ambient and setpoint exchanged in the heat loss
solve_heater_requirement_swapped(q_load_w, ua_value, ambient_temp_c, setpoint_c) ==
    LET heat_loss_w == RMul(ua_value, RSub(ambient_temp_c, setpoint_c))
        net_deficit == RSub(heat_loss_w, q_load_w)
        heater_w == PyMax(Zero, net_deficit)
    IN  Return([SolverResult EXCEPT !.heater_required_w = heater_w])

solve_heater_requirement(q_load_w, ua_value, ambient_temp_c, setpoint_c) ==
    LET heat_loss_w == RMul(ua_value, RSub(setpoint_c, ambient_temp_c))
        net_deficit == RSub(heat_loss_w, q_load_w)
        heater_w == PyMax(Zero, net_deficit)
    IN  Return([SolverResult EXCEPT !.heater_required_w = heater_w])

(***************************************************************************)
(* compute_warnings.  A message is the sequence of the pieces of its       *)
(* f-string: the literal texts and the formatted numbers.                  *)
(***************************************************************************)
\* round-half-even of a non-negative rational to an integer
RoundHalfEven(a) ==
    LET q == a.num \div a.den
        r == a.num % a.den
    IN  IF 2 * r < a.den THEN q
        ELSE IF 2 * r > a.den THEN q + 1
        ELSE IF q % 2 = 0 THEN q ELSE q + 1

\* f"{x:.0f}"
Fmt0(x) ==
    (IF x.num < 0 THEN "-" ELSE "") \o ToString(RoundHalfEven(Rat(Abs(x.num), x.den)))

\* f"{x:.1f}"
Fmt1(x) ==
    LET t == RoundHalfEven(Rat(10 * Abs(x.num), x.den))
    IN  (IF x.num < 0 THEN "-" ELSE "")
            \o ToString(t \div 10) \o "." \o ToString(t % 10)

SaturatedPrefix == "COOLING SATURATED: Coil utilization at "

HighUtilPrefix == "High coil utilization: "

HeaterPrefix == "Heater required: "

SaturatedMsg(coil_utilization_pct) ==
    <<SaturatedPrefix, Fmt0(coil_utilization_pct), "%. ",
      "Increase coil capacity or reduce heat load.">>

HighUtilMsg(coil_utilization_pct) ==
    <<HighUtilPrefix, Fmt0(coil_utilization_pct), "%. ",
      "Limited cooling margin remaining.">>

HeaterMsg(heater_required_w) ==
    <<HeaterPrefix, Fmt1(heater_required_w), " W to maintain setpoint ",
      "under current ambient conditions.">>

Hundred == Rat(100, 1)

Ninety == Rat(90, 1)

\* slip: the saturation threshold tested with >= instead of >
UtilizationWarnings_ge(coil_utilization_pct) ==
    IF RGe(coil_utilization_pct, Hundred) THEN <<SaturatedMsg(coil_utilization_pct)>>
    ELSE IF RGt(coil_utilization_pct, Ninety) THEN <<HighUtilMsg(coil_utilization_pct)>>
    ELSE <<>>

UtilizationWarnings(coil_utilization_pct) ==
    IF RGt(coil_utilization_pct, Hundred) THEN <<SaturatedMsg(coil_utilization_pct)>>
    ELSE IF RGt(coil_utilization_pct, Ninety) THEN <<HighUtilMsg(coil_utilization_pct)>>
    ELSE <<>>

HeaterWarnings(heater_required_w) ==
    IF RGt(heater_required_w, Zero) THEN <<HeaterMsg(heater_required_w)>>
    ELSE <<>>

\* slip: the heater test made before the utilization tests
compute_warnings_heater_first(coil_utilization_pct, heater_required_w) ==
    Return(HeaterWarnings(heater_required_w)
               \o UtilizationWarnings(coil_utilization_pct))

compute_warnings(coil_utilization_pct, heater_required_w) ==
    Return(UtilizationWarnings(coil_utilization_pct)
               \o HeaterWarnings(heater_required_w))

(***************************************************************************)
(* panel_results.py: the style of a message, chosen from its text.  Texts  *)
(* are strings; a message is drawn as the concatenation of its pieces.     *)
(***************************************************************************)
LowerCase == "abcdefghijklmnopqrstuvwxyz"

UpperCase == "ABCDEFGHIJKLMNOPQRSTUVWXYZ"

\* the letters, each with its counterpart in the other case
ToUpper ==
    [c \in {SubSeq(LowerCase, i, i) : i \in 1..Len(LowerCase)} |->
        LET k == CHOOSE i \in 1..Len(LowerCase) : SubSeq(LowerCase, i, i) = c
        IN  SubSeq(UpperCase, k, k)]

ToLower ==
    [c \in {SubSeq(UpperCase, i, i) : i \in 1..Len(UpperCase)} |->
        LET k == CHOOSE i \in 1..Len(UpperCase) : SubSeq(UpperCase, i, i) = c
        IN  SubSeq(LowerCase, k, k)]

\* every character of t in DOMAIN map replaced by its image
RECURSIVE MapText(_, _)
MapText(t, map) ==
    IF Len(t) = 0 THEN ""
    ELSE (IF SubSeq(t, 1, 1) \in DOMAIN map THEN map[SubSeq(t, 1, 1)]
          ELSE SubSeq(t, 1, 1))
             \o MapText(SubSeq(t, 2, Len(t)), map)

\* str.upper / str.lower
upper(t) == MapText(t, ToUpper)

lower(t) == MapText(t, ToLower)

\* needle in t
In(needle, t) ==
    \E i \in 1..(Len(t) - Len(needle) + 1) : SubSeq(t, i, i + Len(needle) - 1) = needle

\* the string of a message
RECURSIVE Text(_)
Text(w) == IF w = <<>> THEN "" ELSE Head(w) \o Text(Tail(w))

\* slip: the tests made on the message as written, without upper() / lower()
severity_case_sensitive(w) ==
    IF In("SATURATED", Text(w)) THEN "error"
    ELSE IF In("heater", Text(w)) THEN "info"
    ELSE "warning"

\* if "SATURATED" in w.upper(): st.error(w)
\* elif "heater" in w.lower(): st.info(w)  else: st.warning(w)
severity(w) ==
    IF In("SATURATED", upper(Text(w))) THEN "error"
    ELSE IF In("heater", lower(Text(w))) THEN "info"
    ELSE "warning"

\* for w in warnings: st.error(w) / st.info(w) / st.warning(w)
styled_messages(warnings) ==
    [i \in 1..Len(warnings) |->
        [style |-> severity(warnings[i]), text |-> Text(warnings[i])]]

(***************************************************************************)
(* Input values: the grid, and the values of the tests and of defaults.py  *)
(***************************************************************************)
Grid == {Rat(n, d) : n \in -MaxNum..MaxNum, d \in 1..MaxDen}

Loads == Grid \cup {Rat(10, 1), Rat(100, 1)}

Deltas == Grid \cup {Rat(5, 1)}

Temps == Grid \cup {Rat(15, 1), Rat(47, 2)}

AirCps == Grid \cup {AIR_CP}

AirDensities == {Rat(n, 1) : n \in -1..1} \cup {AIR_DENSITY}

WaterCps == Grid \cup {WATER_CP}

\* mass flows: the grid and what solve_airflow returns for the test loads
MassFlows == Grid \cup {RDiv(Rat(100, 1), RMul(AIR_CP, Rat(5, 1)))}

\* utilization percentages around the two thresholds, and the tests' values
Utilizations ==
    {RAdd(b, g) : b \in {Zero, Ninety, Hundred}, g \in Grid}
        \cup {Rat(10, 1), Rat(50, 1), Rat(92, 1), Rat(105, 1)}

HeaterWatts == Grid \cup {Rat(15, 1)}

\* The calls a caller can make: the function and its arguments, with the
\* optional parameters either passed or left at their defaults.
AirflowCall(q, dt, cp, rho) ==
    [fn |-> "solve_airflow",
     args |-> [q_total_w |-> q, delta_t_air_c |-> dt,
               air_cp |-> cp, air_density |-> rho]]

CoolantCall(q, dt, cp) ==
    [fn |-> "solve_coolant_flow",
     args |-> [q_total_w |-> q, delta_t_water_c |-> dt, water_cp |-> cp]]

CoilCall(q, m, t, cp) ==
    [fn |-> "solve_coil_leaving_temp",
     args |-> [q_total_w |-> q, airflow_kgs |-> m,
               return_air_temp_c |-> t, air_cp |-> cp]]

\* the airflow solver's mass flow handed to the coil solver, as the pass of
\* the application and the physics card compose them
AirflowThenCoilCall(q, dt, t) ==
    [fn |-> "airflow_then_coil",
     args |-> [q_total_w |-> q, delta_t_air_c |-> dt, return_air_temp_c |-> t]]

\* the messages of compute_warnings handed to the results panel
StyledWarningsCall(u, h) ==
    [fn |-> "styled_warnings",
     args |-> [coil_utilization_pct |-> u, heater_required_w |-> h]]

HeaterCall(q, ua, ta, ts) ==
    [fn |-> "solve_heater_requirement",
     args |-> [q_load_w |-> q, ua_value |-> ua,
               ambient_temp_c |-> ta, setpoint_c |-> ts]]

WarningsCall(u, h) ==
    [fn |-> "compute_warnings",
     args |-> [coil_utilization_pct |-> u, heater_required_w |-> h]]

\* A caller's expression second(first(x)) over the unit conversions.
ConvertCall(x, first, second) ==
    [fn |-> "convert", args |-> [x |-> x, first |-> first, second |-> second]]

\* pairs of conversions between the same two units, in both orders
ConversionPairs ==
    {<<"ft_to_m", "m_to_ft">>, <<"m_to_ft", "ft_to_m">>,
     <<"cfm_to_m3s", "m3s_to_cfm">>, <<"m3s_to_cfm", "cfm_to_m3s">>,
     <<"lpm_to_gpm", "gpm_to_lpm">>, <<"gpm_to_lpm", "lpm_to_gpm">>}

\* values converted: the grid and the values of test_units.py
Quantities == Grid \cup {Rat(10, 1), Rat(38, 1), Rat(72, 100)}

\* volumes in cubic feet: whole numbers, and the 100 ft3 of the default case
VolumesFt3 == {Rat(n, 1) : n \in -MaxNum..MaxNum} \cup {Rat(100, 1)}

\* The variables of the other specifications, at rest.
NoThreads == <<>>

NoHeap == <<>>

NoPass == [pc |-> "none"]

Init ==
    /\ outcome = NoOutcome
    /\ threads = NoThreads /\ heap = NoHeap
    /\ pass = NoPass /\ prev = NoPass
    /\ \/ \E x \in Quantities, p \in ConversionPairs :
              call = ConvertCall(x, p[1], p[2])
       \/ \E x \in VolumesFt3 :
              call = ConvertCall(x, "ft3_to_m3", "m3_to_ft3")
       \/ \E x \in Quantities :
              call = ConvertCall(x, "kgs_to_lpm", "lpm_to_gpm")
       \/ \E q \in Loads, dt \in Deltas, cp \in AirCps, rho \in AirDensities :
              call = AirflowCall(q, dt, cp, rho)
       \/ \E q \in Loads, dt \in Deltas, cp \in WaterCps :
              call = CoolantCall(q, dt, cp)
       \/ \E q \in Loads, m \in MassFlows, t \in Temps, cp \in AirCps :
              call = CoilCall(q, m, t, cp)
       \/ \E q \in Loads, ua \in Grid, ta \in Temps, ts \in Temps :
              call = HeaterCall(q, ua, ta, ts)
       \/ \E u \in Utilizations, h \in HeaterWatts :
              call = WarningsCall(u, h)
       \/ \E q \in Loads, dt \in Deltas, t \in Temps :
              call = AirflowThenCoilCall(q, dt, t)
       \/ \E u \in Utilizations, h \in HeaterWatts :
              call = StyledWarningsCall(u, h)

CallSolveAirflow ==
    /\ call.fn = "solve_airflow"
    /\ outcome.status = "none"
    /\ outcome' = solve_airflow(call.args.q_total_w, call.args.delta_t_air_c,
                                call.args.air_cp, call.args.air_density)
    /\ UNCHANGED <<call, threadVars, passVars>>

CallSolveCoolantFlow ==
    /\ call.fn = "solve_coolant_flow"
    /\ outcome.status = "none"
    /\ outcome' = solve_coolant_flow(call.args.q_total_w,
                                     call.args.delta_t_water_c, call.args.water_cp)
    /\ UNCHANGED <<call, threadVars, passVars>>

CallSolveCoilLeavingTemp ==
    /\ call.fn = "solve_coil_leaving_temp"
    /\ outcome.status = "none"
    /\ outcome' = solve_coil_leaving_temp(call.args.q_total_w, call.args.airflow_kgs,
                                          call.args.return_air_temp_c, call.args.air_cp)
    /\ UNCHANGED <<call, threadVars, passVars>>

CallSolveHeaterRequirement ==
    /\ call.fn = "solve_heater_requirement"
    /\ outcome.status = "none"
    /\ outcome' = solve_heater_requirement(call.args.q_load_w, call.args.ua_value,
                                           call.args.ambient_temp_c,
                                           call.args.setpoint_c)
    /\ UNCHANGED <<call, threadVars, passVars>>

CallComputeWarnings ==
    /\ call.fn = "compute_warnings"
    /\ outcome.status = "none"
    /\ outcome' = compute_warnings(call.args.coil_utilization_pct,
                                   call.args.heater_required_w)
    /\ UNCHANGED <<call, threadVars, passVars>>

\* The two conversions of the expression, the inner one first.
CallUnitConversions ==
    /\ call.fn = "convert"
    /\ \/ /\ outcome.status = "none"
          /\ outcome' = [status |-> "inner", exc |-> "none",
                         value |-> Convert(call.args.first, call.args.x)]
       \/ /\ outcome.status = "inner"
          /\ outcome' = Return(Convert(call.args.second, outcome.value))
    /\ UNCHANGED <<call, threadVars, passVars>>

\* air_result = solve_airflow(q_total_w=q, delta_t_air_c=dt), then
\* solve_coil_leaving_temp(q_total_w=q, airflow_kgs=air_result.airflow_kgs,
\*                         return_air_temp_c=t); an exception of the first
\* call ends the expression
CallAirflowThenCoil ==
    /\ call.fn = "airflow_then_coil"
    /\ \/ /\ outcome.status = "none"
          /\ LET air_result == solve_airflow(call.args.q_total_w,
                                             call.args.delta_t_air_c,
                                             AIR_CP, AIR_DENSITY)
             IN  outcome' = IF air_result.status = "raised" THEN air_result
                            ELSE [air_result EXCEPT !.status = "inner"]
       \/ /\ outcome.status = "inner"
          /\ outcome' = solve_coil_leaving_temp(call.args.q_total_w,
                                                outcome.value.airflow_kgs,
                                                call.args.return_air_temp_c, AIR_CP)
    /\ UNCHANGED <<call, threadVars, passVars>>

\* warnings = compute_warnings(...), then the loop of render_results_panel
\* over warnings
CallStyledWarnings ==
    /\ call.fn = "styled_warnings"
    /\ \/ /\ outcome.status = "none"
          /\ outcome' = [compute_warnings(call.args.coil_utilization_pct,
                                          call.args.heater_required_w)
                             EXCEPT !.status = "inner"]
       \/ /\ outcome.status = "inner"
          /\ outcome' = Return(styled_messages(outcome.value))
    /\ UNCHANGED <<call, threadVars, passVars>>

Next ==
    \/ CallUnitConversions
    \/ CallStyledWarnings
    \/ CallAirflowThenCoil
    \/ CallSolveAirflow
    \/ CallSolveCoolantFlow
    \/ CallSolveCoilLeavingTemp
    \/ CallSolveHeaterRequirement
    \/ CallComputeWarnings

Spec == Init /\ [][Next]_vars

(***************************************************************************)
(* Calls made by concurrent threads.  Python objects live in the heap, a   *)
(* sequence indexed by reference: a list has items, a SolverResult has its *)
(* float fields and a reference to its warnings list.  A thread runs one   *)
(* call, statement group by statement group, on its own frame.             *)
(***************************************************************************)
Threads == {1, 2}

\* how many warnings a caller attaches to one result
MaxAttached == 1

FloatFields ==
    {"airflow_m3s", "airflow_kgs", "coolant_kgs", "coil_leaving_temp_c",
     "heater_required_w", "coil_utilization_pct"}

NewList(h, site) ==
    [heap |-> Append(h, [kind |-> "list", site |-> site, items |-> <<>>]),
     ref |-> Len(h) + 1]

FirstAt(h, site) ==
    CHOOSE i \in 1..Len(h) :
        /\ h[i].kind = "list" /\ h[i].site = site
        /\ \A j \in 1..(i - 1) : ~(h[j].kind = "list" /\ h[j].site = site)

HasListAt(h, site) == \E i \in 1..Len(h) : h[i].kind = "list" /\ h[i].site = site

\* slip: one list object shared by every SolverResult (a default value
\* instead of a default factory)
shared_default_list(h) ==
    IF HasListAt(h, "SolverResult.warnings")
    THEN [heap |-> h, ref |-> FirstAt(h, "SolverResult.warnings")]
    ELSE NewList(h, "SolverResult.warnings")

\* warnings: list[str] = field(default_factory=list)
default_factory_list(h) == NewList(h, "SolverResult.warnings")

\* slip: the list made once, as a mutable default argument
mutable_default_list(h) ==
    IF HasListAt(h, "compute_warnings")
    THEN [heap |-> h, ref |-> FirstAt(h, "compute_warnings")]
    ELSE NewList(h, "compute_warnings")

\* warnings = []
list_literal(h) == NewList(h, "compute_warnings")

\* SolverResult(...): the object built from the field values v
NewSolverResult(h, v) ==
    LET l == default_factory_list(h)
    IN  [heap |-> Append(l.heap, [kind |-> "SolverResult",
                                  fields |-> [f \in FloatFields |-> v[f]],
                                  warnings |-> l.ref]),
         ref |-> Len(l.heap) + 1]

\* list.append / list.extend on the list at ref
Extend(h, ref, ws) == [h EXCEPT ![ref].items = @ \o ws]

\* the call evaluated on its arguments alone
Apply(c) ==
    CASE c.fn = "solve_airflow" ->
             solve_airflow(c.args.q_total_w, c.args.delta_t_air_c,
                           c.args.air_cp, c.args.air_density)
      [] c.fn = "solve_coolant_flow" ->
             solve_coolant_flow(c.args.q_total_w, c.args.delta_t_water_c,
                                c.args.water_cp)
      [] c.fn = "solve_coil_leaving_temp" ->
             solve_coil_leaving_temp(c.args.q_total_w, c.args.airflow_kgs,
                                     c.args.return_air_temp_c, c.args.air_cp)
      [] c.fn = "solve_heater_requirement" ->
             solve_heater_requirement(c.args.q_load_w, c.args.ua_value,
                                      c.args.ambient_temp_c, c.args.setpoint_c)
      [] c.fn = "compute_warnings" ->
             compute_warnings(c.args.coil_utilization_pct,
                              c.args.heater_required_w)

SolverNames ==
    {"solve_airflow", "solve_coolant_flow", "solve_coil_leaving_temp",
     "solve_heater_requirement"}

\* the calls the threads make, with the optional parameters at their defaults
ThreadLoads == {Rat(n, 1) : n \in -MaxNum..MaxNum}

ThreadDeltas == {Rat(n, 1) : n \in -1..2}

ThreadCalls ==
    {AirflowCall(q, dt, AIR_CP, AIR_DENSITY) : q \in ThreadLoads, dt \in ThreadDeltas}
        \cup {CoolantCall(Rat(100, 1), dt, WATER_CP) : dt \in {Zero, Rat(2, 1)}}
        \cup {CoilCall(Rat(100, 1), m, Rat(47, 2), AIR_CP) : m \in {Zero, Rat(4, 201)}}
        \cup {HeaterCall(Rat(10, 1), Rat(2, 1), ta, Rat(47, 2)) :
                  ta \in {Rat(15, 1), Rat(47, 2)}}
        \cup {WarningsCall(u, h) : u \in {Rat(50, 1), Rat(95, 1), Rat(105, 1)},
                                   h \in {Zero, Rat(15, 1)}}

NewThread(c) ==
    [call |-> c, pc |-> "call", local |-> NoOutcome, ret |-> NoOutcome,
     attached |-> 0]

ThreadInit ==
    /\ call = [fn |-> "none", args |-> <<>>] /\ outcome = NoOutcome
    /\ pass = NoPass /\ prev = NoPass
    /\ heap = <<>>
    /\ \E c1 \in ThreadCalls, c2 \in ThreadCalls :
           threads = <<NewThread(c1), NewThread(c2)>>

\* a solver up to its return statement: the zero test and the arithmetic
SolverBody(t) ==
    /\ threads[t].pc = "call"
    /\ threads[t].call.fn \in SolverNames
    /\ LET o == Apply(threads[t].call)
       IN  threads' = [threads EXCEPT
               ![t].local = o,
               ![t].ret = IF o.status = "raised" THEN o ELSE @,
               ![t].pc = IF o.status = "raised" THEN "done" ELSE "return"]
    /\ UNCHANGED <<heap, callVars, passVars>>

\* return SolverResult(...)
SolverReturn(t) ==
    /\ threads[t].pc = "return"
    /\ threads[t].call.fn \in SolverNames
    /\ LET n == NewSolverResult(heap, threads[t].local.value)
       IN  /\ heap' = n.heap
           /\ threads' = [threads EXCEPT ![t].ret = Return(n.ref), ![t].pc = "done"]
    /\ UNCHANGED <<callVars, passVars>>

\* warnings = []
WarningsNew(t) ==
    /\ threads[t].pc = "call"
    /\ threads[t].call.fn = "compute_warnings"
    /\ LET n == list_literal(heap)
       IN  /\ heap' = n.heap
           /\ threads' = [threads EXCEPT ![t].local = Return(n.ref),
                                         ![t].pc = "utilization"]
    /\ UNCHANGED <<callVars, passVars>>

\* if coil_utilization_pct > 100.0 ... elif coil_utilization_pct > 90.0 ...
WarningsUtilization(t) ==
    /\ threads[t].pc = "utilization"
    /\ heap' = Extend(heap, threads[t].local.value,
                      UtilizationWarnings(threads[t].call.args.coil_utilization_pct))
    /\ threads' = [threads EXCEPT ![t].pc = "heater"]
    /\ UNCHANGED <<callVars, passVars>>

\* if heater_required_w > 0.0 ...
WarningsHeater(t) ==
    /\ threads[t].pc = "heater"
    /\ heap' = Extend(heap, threads[t].local.value,
                      HeaterWarnings(threads[t].call.args.heater_required_w))
    /\ threads' = [threads EXCEPT ![t].pc = "return"]
    /\ UNCHANGED <<callVars, passVars>>

\* return warnings
WarningsReturn(t) ==
    /\ threads[t].pc = "return"
    /\ threads[t].call.fn = "compute_warnings"
    /\ threads' = [threads EXCEPT ![t].ret = threads[t].local, ![t].pc = "done"]
    /\ UNCHANGED <<heap, callVars, passVars>>

\* what a caller attaches to a result it holds
AttachedMsg == HighUtilMsg(Rat(95, 1))

\* the caller of thread t attaches a warning to the result it got
AttachWarning(t) ==
    /\ threads[t].pc = "done"
    /\ threads[t].call.fn \in SolverNames
    /\ threads[t].ret.status = "returned"
    /\ threads[t].attached < MaxAttached
    /\ heap' = Extend(heap, heap[threads[t].ret.value].warnings, <<AttachedMsg>>)
    /\ threads' = [threads EXCEPT ![t].attached = @ + 1]
    /\ UNCHANGED <<callVars, passVars>>

ThreadNext ==
    \E t \in Threads :
        \/ SolverBody(t)
        \/ SolverReturn(t)
        \/ WarningsNew(t)
        \/ WarningsUtilization(t)
        \/ WarningsHeater(t)
        \/ WarningsReturn(t)
        \/ AttachWarning(t)

ThreadSpec == ThreadInit /\ [][ThreadNext]_vars

(***************************************************************************)
(* Exact values too wide for one machine integer: a whole number is a sign *)
(* and the digits of its magnitude in base 10000, least significant first;  *)
(* a value is a fraction of two of them, not reduced.                      *)
(***************************************************************************)
RECURSIVE Digits(_)
Digits(n) == IF n = 0 THEN <<>> ELSE <<n % 10000>> \o Digits(n \div 10000)

DigitAt(a, i) == IF i <= Len(a) THEN a[i] ELSE 0

Rest(a) == IF a = <<>> THEN <<>> ELSE Tail(a)

RECURSIVE MagAdd(_, _, _)
MagAdd(a, b, carry) ==
    IF a = <<>> /\ b = <<>>
    THEN IF carry = 0 THEN <<>> ELSE <<carry>>
    ELSE LET x == DigitAt(a, 1) + DigitAt(b, 1) + carry
         IN  <<x % 10000>> \o MagAdd(Rest(a), Rest(b), x \div 10000)

RECURSIVE Strip(_)
Strip(a) ==
    IF a # <<>> /\ a[Len(a)] = 0 THEN Strip(SubSeq(a, 1, Len(a) - 1)) ELSE a

\* a - b for magnitudes a >= b
RECURSIVE MagSubFrom(_, _, _)
MagSubFrom(a, b, borrow) ==
    IF a = <<>> THEN <<>>
    ELSE LET x == a[1] - DigitAt(b, 1) - borrow
         IN  IF x < 0 THEN <<x + 10000>> \o MagSubFrom(Tail(a), Rest(b), 1)
             ELSE <<x>> \o MagSubFrom(Tail(a), Rest(b), 0)

MagSub(a, b) == Strip(MagSubFrom(a, b, 0))

RECURSIVE MagMulDigit(_, _, _)
MagMulDigit(a, k, carry) ==
    IF a = <<>>
    THEN IF carry = 0 THEN <<>> ELSE <<carry>>
    ELSE LET x == a[1] * k + carry
         IN  <<x % 10000>> \o MagMulDigit(Tail(a), k, x \div 10000)

RECURSIVE MagMul(_, _)
MagMul(a, b) ==
    IF a = <<>> \/ b = <<>> THEN <<>>
    ELSE LET high == MagMul(a, Tail(b))
         IN  MagAdd(Strip(MagMulDigit(a, b[1], 0)),
                    IF high = <<>> THEN <<>> ELSE <<0>> \o high, 0)

RECURSIVE MagLess(_, _)
MagLess(a, b) ==
    IF Len(a) # Len(b) THEN Len(a) < Len(b)
    ELSE IF a = <<>> THEN FALSE
    ELSE IF a[Len(a)] # b[Len(b)] THEN a[Len(a)] < b[Len(b)]
    ELSE MagLess(SubSeq(a, 1, Len(a) - 1), SubSeq(b, 1, Len(b) - 1))

Whole(n) == [neg |-> n < 0, mag |-> Digits(Abs(n))]

WholeMul(x, y) ==
    LET m == MagMul(x.mag, y.mag)
    IN  [neg |-> m # <<>> /\ x.neg # y.neg, mag |-> m]

WholeAdd(x, y) ==
    IF x.neg = y.neg THEN [neg |-> x.neg, mag |-> MagAdd(x.mag, y.mag, 0)]
    ELSE IF MagLess(x.mag, y.mag) THEN [neg |-> y.neg, mag |-> MagSub(y.mag, x.mag)]
    ELSE LET m == MagSub(x.mag, y.mag)
         IN  [neg |-> m # <<>> /\ x.neg, mag |-> m]

WholeLess(x, y) ==
    IF x.neg # y.neg THEN x.neg
    ELSE IF x.neg THEN MagLess(y.mag, x.mag)
    ELSE MagLess(x.mag, y.mag)

\* the float r as a wide value; the denominator of a wide value is positive
Wide(r) == [num |-> Whole(r.num), den |-> Whole(r.den)]

WideMul(a, b) == [num |-> WholeMul(a.num, b.num), den |-> WholeMul(a.den, b.den)]

WideAdd(a, b) ==
    [num |-> WholeAdd(WholeMul(a.num, b.den), WholeMul(b.num, a.den)),
     den |-> WholeMul(a.den, b.den)]

WideLess(a, b) == WholeLess(WholeMul(a.num, b.den), WholeMul(b.num, a.den))

(***************************************************************************)
(* models.py: the entities and their derived properties                    *)
(***************************************************************************)
\* the values of the members of CoolingType
CoolingTypes == {"air_coil", "liquid", "hybrid"}

\* the members of SolveMode
SolveModes ==
    {"AIRFLOW", "COOLANT", "COIL_TEMP", "HEATER"}

\* Enclosure(length_m, width_m, height_m, internal_thermal_mass=...): the
\* air properties keep their defaults
Enclosure(length_m, width_m, height_m, internal_thermal_mass) ==
    [length_m |-> length_m, width_m |-> width_m, height_m |-> height_m,
     air_density |-> AIR_DENSITY, air_cp |-> AIR_CP,
     internal_thermal_mass |-> internal_thermal_mass]

\* slip: one taken off the height, length * width * (height - 1)
volume_m3_height_less_one(e) ==
    RMul(RMul(e.length_m, e.width_m), RSub(e.height_m, One))

volume_m3(e) == RMul(RMul(e.length_m, e.width_m), e.height_m)

\* rho * V * c_p + C_internal; the product needs more than one machine
\* integer, so the value is wide
thermal_capacitance(e) ==
    WideAdd(WideMul(WideMul(Wide(e.air_density), Wide(volume_m3(e))),
                    Wide(e.air_cp)),
            Wide(e.internal_thermal_mass))

HeatLoads(baseline_load_w, additional_loads_w) ==
    [baseline_load_w |-> baseline_load_w, additional_loads_w |-> additional_loads_w]

\* slip: the additional loads left out
total_load_w_baseline_only(l) == l.baseline_load_w

total_load_w(l) == RAdd(l.baseline_load_w, l.additional_loads_w)

CoolingPlant(type, approach, max_cap, chilled, dt_air, dt_water) ==
    [cooling_type |-> type, coil_approach_temp_c |-> approach,
     coil_max_capacity_w |-> max_cap, chilled_water_temp_c |-> chilled,
     delta_t_air_c |-> dt_air, delta_t_water_c |-> dt_water]

AmbientConditions(temperature_c, amplitude, period, ua_value) ==
    [temperature_c |-> temperature_c, variation_amplitude_c |-> amplitude,
     variation_period_hr |-> period, ua_value |-> ua_value]

(***************************************************************************)
(* The input panels (src/ui/panel_*.py).  w holds the values of the        *)
(* widgets; a widget never yields a value outside its min_value/max_value. *)
(* The markdown the panels write is not part of the model.                 *)
(***************************************************************************)
DirectMode == "Direct UA (W/K)"

AchMode == "Air changes per hour (ACH)"

render_geometry_panel(use_imperial, w) ==
    [length_m |-> IF use_imperial THEN ft_to_m(w.length) ELSE w.length,
     width_m |-> IF use_imperial THEN ft_to_m(w.width) ELSE w.width,
     height_m |-> IF use_imperial THEN ft_to_m(w.height) ELSE w.height,
     internal_thermal_mass |-> RMul(w.internal_mass, Rat(1000, 1))]

render_loads_panel(w) ==
    [baseline_load_w |-> w.baseline, additional_loads_w |-> w.additional]

render_ambient_panel(w) ==
    [temperature_c |-> w.temp,
     variation_amplitude_c |-> w.variation,
     variation_period_hr |-> Rat(24, 1),
     ua_value |-> IF w.ua_mode = DirectMode THEN w.ua ELSE w.ach,
     ua_mode |-> w.ua_mode]

\* the number inputs the solve mode shows as disabled
DisabledInputs(solve_mode) ==
    (IF solve_mode = "COOLANT" THEN {"delta_t_water"} ELSE {})
        \cup (IF solve_mode = "AIRFLOW" THEN {"delta_t_air"} ELSE {})

\* slip: a disabled number input yields 0.0
render_cooling_panel_zeroes_disabled(solve_mode, w) ==
    [cooling_type |-> w.cooling_type,
     coil_approach_temp_c |-> w.approach,
     coil_max_capacity_w |-> w.max_cap,
     chilled_water_temp_c |-> w.chilled_water_temp,
     delta_t_air_c |-> IF "delta_t_air" \in DisabledInputs(solve_mode)
                       THEN Zero ELSE w.delta_t_air,
     delta_t_water_c |-> IF "delta_t_water" \in DisabledInputs(solve_mode)
                         THEN Zero ELSE w.delta_t_water]

\* slip: a disabled number input yields its initial value, not the entered one
render_cooling_panel_resets_disabled(solve_mode, w) ==
    [cooling_type |-> w.cooling_type,
     coil_approach_temp_c |-> w.approach,
     coil_max_capacity_w |-> w.max_cap,
     chilled_water_temp_c |-> w.chilled_water_temp,
     delta_t_air_c |-> IF "delta_t_air" \in DisabledInputs(solve_mode)
                       THEN Rat(5, 1) ELSE w.delta_t_air,
     delta_t_water_c |-> IF "delta_t_water" \in DisabledInputs(solve_mode)
                         THEN Rat(2, 1) ELSE w.delta_t_water]

\* disabled=... changes how an input is drawn, not the value it yields
render_cooling_panel(solve_mode, w) ==
    [cooling_type |-> w.cooling_type,
     coil_approach_temp_c |-> w.approach,
     coil_max_capacity_w |-> w.max_cap,
     chilled_water_temp_c |-> w.chilled_water_temp,
     delta_t_air_c |-> w.delta_t_air,
     delta_t_water_c |-> w.delta_t_water]

(***************************************************************************)
(* panel_results.py and physics_card.py: what the result columns draw      *)
(***************************************************************************)
\* min(a, b) of Python
PyMin(a, b) == IF RLt(b, a) THEN b ELSE a

\* delta of the COIL UTILIZATION metric, in pieces
utilization_delta(coil_utilization_pct) ==
    IF RLe(coil_utilization_pct, Hundred)
    THEN <<"of ", Fmt0(RMul(RDiv(coil_utilization_pct, Hundred), Rat(500, 1))),
           " W capacity">>
    ELSE <<"OVER CAPACITY">>

wrapper_class(solve_mode, coil_utilization_pct) ==
    IF solve_mode = "COIL_TEMP" THEN "metric-solving"
    ELSE IF RGt(coil_utilization_pct, Hundred) THEN "metric-error"
    ELSE IF RGt(coil_utilization_pct, Ninety) THEN "metric-warning"
    ELSE ""

\* bar_width = min(coil_utilization_pct, 100)
bar_width(coil_utilization_pct) == PyMin(coil_utilization_pct, Hundred)

\* the coil utilization card, its bar and the styled messages; the other
\* cards draw airflow, coolant flow, heater power and coil leaving temperature
render_results_panel(coil_utilization_pct, warnings, solve_mode) ==
    [wrapper_class |-> wrapper_class(solve_mode, coil_utilization_pct),
     value |-> <<Fmt0(coil_utilization_pct), "%">>,
     delta |-> utilization_delta(coil_utilization_pct),
     bar_width |-> bar_width(coil_utilization_pct),
     messages |-> styled_messages(warnings)]

\* "= {ambient_temp_c:.1f} - {delta_t_air_c:.1f} = {coil_leaving_temp_c:.1f}"
\* of the physics card
coil_equation(ambient_temp_c, delta_t_air_c, coil_leaving_temp_c) ==
    <<"= ", Fmt1(ambient_temp_c), " - ", Fmt1(delta_t_air_c), " = ",
      Fmt1(coil_leaving_temp_c)>>

(***************************************************************************)
(* defaults.py: the preloaded default case                                 *)
(***************************************************************************)
default_enclosure ==
    Enclosure(ft_to_m(Rat(4, 1)), ft_to_m(Rat(10, 1)), ft_to_m(Rat(5, 2)),
              Rat(50000, 1))

default_heat_loads == HeatLoads(Rat(100, 1), Zero)

default_cooling_plant ==
    CoolingPlant("air_coil", Rat(2, 1), Rat(500, 1), Rat(15, 1), Rat(5, 1), Rat(2, 1))

default_ambient == AmbientConditions(Rat(47, 2), Rat(2, 1), Rat(24, 1), Rat(2, 1))

(***************************************************************************)
(* Widget values of the passes: the initial values of the app (the default *)
(* case of defaults.py) and values at and around the limits of the inputs. *)
(***************************************************************************)
\* 4 x 10 x 2.5 ft, 50 kJ/K (initial values, imperial)
ImperialDefault ==
    [use_imperial |-> TRUE, length |-> Rat(4, 1), width |-> Rat(10, 1),
     height |-> Rat(5, 2), internal_mass |-> Rat(50, 1)]

\* 1.22 x 3.05 x 0.76 m, 50 kJ/K (initial values, metric)
MetricDefault ==
    [use_imperial |-> FALSE, length |-> Rat(122, 100), width |-> Rat(305, 100),
     height |-> Rat(76, 100), internal_mass |-> Rat(50, 1)]

\* the smallest enclosure the metric inputs accept, slider at 0
MetricMinimum ==
    [use_imperial |-> FALSE, length |-> Rat(1, 100), width |-> Rat(1, 100),
     height |-> Rat(1, 100), internal_mass |-> Zero]

Direct(ua) == [ua_mode |-> DirectMode, ua |-> ua, ach |-> Rat(1, 2)]

Ach(ach) == [ua_mode |-> AchMode, ua |-> Rat(2, 1), ach |-> ach]

\* geometry with ambient coupling
GeometryAndCoupling ==
    {<<ImperialDefault, Direct(Rat(2, 1))>>, <<ImperialDefault, Ach(Zero)>>,
     <<MetricDefault, Ach(Rat(1, 2))>>, <<MetricDefault, Direct(Zero)>>,
     <<MetricMinimum, Direct(Rat(2, 1))>>}

\* baseline load, additional loads, coil max capacity
LoadsAndCapacity ==
    {<<Rat(100, 1), Zero, Rat(500, 1)>>, <<Zero, Zero, Rat(500, 1)>>,
     <<Rat(480, 1), Rat(20, 1), Rat(500, 1)>>, <<Rat(460, 1), Zero, Rat(500, 1)>>,
     <<Rat(480, 1), Rat(40, 1), Rat(500, 1)>>, <<Rat(450, 1), Zero, Rat(500, 1)>>,
     <<Rat(19, 2), Zero, Rat(10, 1)>>}

\* ambient temperature, air-side dT
AmbientAndRise ==
    {<<Rat(47, 2), Rat(5, 1)>>, <<Rat(15, 1), Rat(1, 10)>>, <<Rat(47, 2), Rat(10, 1)>>}

Widgets(g, c, l, a, solve_mode, cooling_type) ==
    [solve_mode |-> solve_mode, use_imperial |-> g.use_imperial,
     length |-> g.length, width |-> g.width, height |-> g.height,
     internal_mass |-> g.internal_mass,
     baseline |-> l[1], additional |-> l[2],
     temp |-> a[1], variation |-> Rat(2, 1),
     ua_mode |-> c.ua_mode, ua |-> c.ua, ach |-> c.ach,
     cooling_type |-> cooling_type, approach |-> Rat(2, 1), max_cap |-> l[3],
     chilled_water_temp |-> Rat(15, 1),
     delta_t_water |-> Rat(2, 1), delta_t_air |-> a[2]]

DefaultWidgets(solve_mode, cooling_type) ==
    Widgets(ImperialDefault, Direct(Rat(2, 1)),
            <<Rat(100, 1), Zero, Rat(500, 1)>>, <<Rat(47, 2), Rat(5, 1)>>,
            solve_mode, cooling_type)

(***************************************************************************)
(* app.py: one pass of the script, top to bottom.  Streamlit runs the      *)
(* script again when a widget changes; an exception ends the pass.         *)
(***************************************************************************)
\* how many passes a session makes
MaxPasses == 2

NewPass(n, w) ==
    [n |-> n, pc |-> "panels", widgets |-> w,
     geo |-> NoOutcome, loads_input |-> NoOutcome, ambient_input |-> NoOutcome,
     cooling_input |-> NoOutcome, disabled |-> {},
     enclosure |-> NoOutcome, loads |-> NoOutcome, ambient |-> NoOutcome,
     cooling |-> NoOutcome,
     q_total |-> NoOutcome, air_result |-> NoOutcome, coolant_result |-> NoOutcome,
     coil_result |-> NoOutcome, heater_result |-> NoOutcome,
     coil_utilization |-> NoOutcome, warnings |-> NoOutcome,
     cfm |-> NoOutcome, lpm |-> NoOutcome, coil_equation |-> NoOutcome,
     results_panel |-> NoOutcome,
     calls |-> <<>>, error |-> NoOutcome]

PassInit ==
    /\ call = [fn |-> "none", args |-> <<>>] /\ outcome = NoOutcome
    /\ threads = NoThreads /\ heap = NoHeap
    /\ prev = NoPass
    /\ \E gc \in GeometryAndCoupling, l \in LoadsAndCapacity, a \in AmbientAndRise,
          solve_mode \in SolveModes, cooling_type \in CoolingTypes :
           pass = NewPass(1, Widgets(gc[1], gc[2], l, a, solve_mode, cooling_type))

\* geo = render_geometry_panel(use_imperial) ... render_cooling_panel(solve_mode)
RenderPanels ==
    /\ pass.pc = "panels"
    /\ pass' = [pass EXCEPT
           !.geo = Return(render_geometry_panel(pass.widgets.use_imperial, pass.widgets)),
           !.loads_input = Return(render_loads_panel(pass.widgets)),
           !.ambient_input = Return(render_ambient_panel(pass.widgets)),
           !.cooling_input = Return(render_cooling_panel(pass.widgets.solve_mode,
                                                         pass.widgets)),
           !.disabled = DisabledInputs(pass.widgets.solve_mode),
           !.pc = "build"]
    /\ UNCHANGED <<prev, callVars, threadVars>>

\* slip: the rate per hour taken per second
ua_from_input_per_second(ambient_input, enclosure) ==
    IF ambient_input.ua_mode = AchMode
    THEN RMul(RMul(RMul(ambient_input.ua_value, volume_m3(enclosure)),
                   AIR_DENSITY), AIR_CP)
    ELSE ambient_input.ua_value

\* ua_value = ambient_input["ua_value"]; if ... == "Air changes per hour (ACH)":
\*     ua_value = ach * enclosure.volume_m3 * AIR_DENSITY * AIR_CP / 3600.0
ua_from_input(ambient_input, enclosure) ==
    IF ambient_input.ua_mode = AchMode
    THEN RDiv(RMul(RMul(RMul(ambient_input.ua_value, volume_m3(enclosure)),
                        AIR_DENSITY), AIR_CP),
              Rat(3600, 1))
    ELSE ambient_input.ua_value

\* enclosure = Enclosure(...) ... cooling = CoolingPlant(...)
BuildModels ==
    /\ pass.pc = "build"
    /\ LET geo == pass.geo.value
           loads_input == pass.loads_input.value
           ambient_input == pass.ambient_input.value
           cooling_input == pass.cooling_input.value
           enclosure == Enclosure(geo.length_m, geo.width_m, geo.height_m,
                                  geo.internal_thermal_mass)
       IN  pass' = [pass EXCEPT
               !.enclosure = Return(enclosure),
               !.loads = Return(HeatLoads(loads_input.baseline_load_w,
                                          loads_input.additional_loads_w)),
               !.ambient = Return(AmbientConditions(
                                      ambient_input.temperature_c,
                                      ambient_input.variation_amplitude_c,
                                      ambient_input.variation_period_hr,
                                      ua_from_input(ambient_input, enclosure))),
               !.cooling = Return(CoolingPlant(
                                      cooling_input.cooling_type,
                                      cooling_input.coil_approach_temp_c,
                                      cooling_input.coil_max_capacity_w,
                                      cooling_input.chilled_water_temp_c,
                                      cooling_input.delta_t_air_c,
                                      cooling_input.delta_t_water_c)),
               !.pc = "q_total"]
    /\ UNCHANGED <<prev, callVars, threadVars>>

\* q_total = loads.total_load_w
TotalLoad ==
    /\ pass.pc = "q_total"
    /\ pass' = [pass EXCEPT !.q_total = Return(total_load_w(pass.loads.value)),
                            !.pc = "airflow"]
    /\ UNCHANGED <<prev, callVars, threadVars>>

\* slip: the call folds the additional loads into the baseline of the
\* HeatLoads it was fed from
bind_folding_loads(p, c, name, next) ==
    LET o == Apply(c)
    IN  [p EXCEPT ![name] = o,
                  !.loads.value = HeatLoads(total_load_w(p.loads.value), Zero),
                  !.calls = Append(@, c),
                  !.error = IF o.status = "raised" THEN o ELSE @,
                  !.pc = IF o.status = "raised" THEN "failed" ELSE next]

\* a solver call of the pass: the call is made, its result bound to the
\* name, and an exception ends the pass
Bind(p, c, name, next) ==
    LET o == Apply(c)
    IN  [p EXCEPT ![name] = o,
                  !.calls = Append(@, c),
                  !.error = IF o.status = "raised" THEN o ELSE @,
                  !.pc = IF o.status = "raised" THEN "failed" ELSE next]

\* air_result = solve_airflow(q_total_w=q_total, delta_t_air_c=cooling.delta_t_air_c)
RunAirflow ==
    /\ pass.pc = "airflow"
    /\ pass' = Bind(pass, AirflowCall(pass.q_total.value,
                                      pass.cooling.value.delta_t_air_c,
                                      AIR_CP, AIR_DENSITY),
                    "air_result", "coolant")
    /\ UNCHANGED <<prev, callVars, threadVars>>

\* coolant_result = solve_coolant_flow(q_total_w=q_total, delta_t_water_c=...)
RunCoolantFlow ==
    /\ pass.pc = "coolant"
    /\ pass' = Bind(pass, CoolantCall(pass.q_total.value,
                                      pass.cooling.value.delta_t_water_c, WATER_CP),
                    "coolant_result", "coil")
    /\ UNCHANGED <<prev, callVars, threadVars>>

\* slip: the volume flow handed over as the mass flow
coil_call_with_volume_flow(q_total, air_result, ambient) ==
    CoilCall(q_total, air_result.airflow_m3s, ambient.temperature_c, AIR_CP)

\* solve_coil_leaving_temp(q_total_w=q_total, airflow_kgs=air_result.airflow_kgs,
\*                         return_air_temp_c=ambient.temperature_c)
coil_call(q_total, air_result, ambient) ==
    CoilCall(q_total, air_result.airflow_kgs, ambient.temperature_c, AIR_CP)

RunCoilLeavingTemp ==
    /\ pass.pc = "coil"
    /\ pass' = Bind(pass, coil_call(pass.q_total.value, pass.air_result.value,
                                    pass.ambient.value),
                    "coil_result", "heater")
    /\ UNCHANGED <<prev, callVars, threadVars>>

\* slip: the setpoint left at the default ambient temperature
heater_call_default_setpoint(q_total, ambient) ==
    HeaterCall(q_total, ambient.ua_value, ambient.temperature_c, Rat(47, 2))

\* solve_heater_requirement(q_load_w=q_total, ua_value=ambient.ua_value,
\*     ambient_temp_c=ambient.temperature_c, setpoint_c=ambient.temperature_c)
heater_call(q_total, ambient) ==
    HeaterCall(q_total, ambient.ua_value, ambient.temperature_c,
               ambient.temperature_c)

RunHeaterRequirement ==
    /\ pass.pc = "heater"
    /\ pass' = Bind(pass, heater_call(pass.q_total.value, pass.ambient.value),
                    "heater_result", "utilization")
    /\ UNCHANGED <<prev, callVars, threadVars>>

\* slip: the fraction reported, not the percentage
utilization_fraction(q_total, coil_max_capacity_w) ==
    IF DivRaises(coil_max_capacity_w) THEN Raise("ZeroDivisionError")
    ELSE Return(RDiv(q_total, coil_max_capacity_w))

\* (q_total / cooling.coil_max_capacity_w) * 100.0
utilization(q_total, coil_max_capacity_w) ==
    IF DivRaises(coil_max_capacity_w) THEN Raise("ZeroDivisionError")
    ELSE Return(RMul(RDiv(q_total, coil_max_capacity_w), Hundred))

\* coil_utilization = (q_total / cooling.coil_max_capacity_w) * 100.0
CoilUtilization ==
    /\ pass.pc = "utilization"
    /\ LET o == utilization(pass.q_total.value,
                            pass.cooling.value.coil_max_capacity_w)
       IN  pass' = [pass EXCEPT
               !.coil_utilization = o,
               !.calls = Append(@, [fn |-> "coil_utilization",
                                    args |-> [q_total_w |-> pass.q_total.value,
                                              coil_max_capacity_w |->
                                                  pass.cooling.value.coil_max_capacity_w]]),
               !.error = IF o.status = "raised" THEN o ELSE @,
               !.pc = IF o.status = "raised" THEN "failed" ELSE "warnings"]
    /\ UNCHANGED <<prev, callVars, threadVars>>

\* warnings = compute_warnings(coil_utilization_pct=coil_utilization,
\*                             heater_required_w=heater_result.heater_required_w)
RunComputeWarnings ==
    /\ pass.pc = "warnings"
    /\ pass' = Bind(pass, WarningsCall(pass.coil_utilization.value,
                                       pass.heater_result.value.heater_required_w),
                    "warnings", "schematic")
    /\ UNCHANGED <<prev, callVars, threadVars>>

\* cfm = m3s_to_cfm(air_result.airflow_m3s); lpm = kgs_to_lpm(coolant_result.coolant_kgs)
\* and the centre column that draws the values of the pass
Display ==
    /\ pass.pc = "schematic"
    /\ pass' = [pass EXCEPT
           !.cfm = Return(m3s_to_cfm(pass.air_result.value.airflow_m3s)),
           !.lpm = Return(kgs_to_lpm(pass.coolant_result.value.coolant_kgs)),
           !.coil_equation =
               Return(coil_equation(pass.ambient.value.temperature_c,
                                    pass.cooling.value.delta_t_air_c,
                                    pass.coil_result.value.coil_leaving_temp_c)),
           !.pc = "results"]
    /\ UNCHANGED <<prev, callVars, threadVars>>

\* render_results_panel(..., coil_utilization_pct=coil_utilization, ...,
\*                      warnings=warnings, solve_mode=solve_mode)
RenderResults ==
    /\ pass.pc = "results"
    /\ pass' = [pass EXCEPT
           !.results_panel =
               Return(render_results_panel(pass.coil_utilization.value,
                                           pass.warnings.value,
                                           pass.widgets.solve_mode)),
           !.pc = "done"]
    /\ UNCHANGED <<prev, callVars, threadVars>>

\* the user picks a solve mode and a cooling type and leaves every number
\* as it is: the script runs again, on new entities
Rerun ==
    /\ pass.pc \in {"done", "failed"}
    /\ pass.n < MaxPasses
    /\ \E solve_mode \in SolveModes, cooling_type \in CoolingTypes :
           pass' = NewPass(pass.n + 1,
                           [pass.widgets EXCEPT !.solve_mode = solve_mode,
                                                !.cooling_type = cooling_type])
    /\ prev' = pass
    /\ UNCHANGED <<callVars, threadVars>>

PassNext ==
    \/ RenderPanels
    \/ BuildModels
    \/ TotalLoad
    \/ RunAirflow
    \/ RunCoolantFlow
    \/ RunCoilLeavingTemp
    \/ RunHeaterRequirement
    \/ CoilUtilization
    \/ RunComputeWarnings
    \/ Display
    \/ RenderResults
    \/ Rerun

PassSpec == PassInit /\ [][PassNext]_vars

(***************************************************************************)
(* Properties.  InvalidInput of the specification is Python's ValueError.  *)
(***************************************************************************)
InvalidInput == "ValueError"

Called(f) == call.fn = f /\ outcome.status # "none"

Returned == outcome.status = "returned"

RaisedInvalidInput ==
    outcome.status = "raised" /\ outcome.exc = InvalidInput /\ outcome.value = <<>>

\* x = a / (b * c), by cross-multiplication of the integers
IsQuotient3(x, a, b, c) ==
    /\ b.num # 0 /\ c.num # 0
    /\ x.num * b.num * c.num * a.den = a.num * b.den * c.den * x.den

\* x = a / b, by cross-multiplication of the integers
IsQuotient2(x, a, b) ==
    b.num # 0 /\ x.num * b.num * a.den = a.num * b.den * x.den

DefaultAir == call.args.air_cp = AIR_CP /\ call.args.air_density = AIR_DENSITY

\* C1: for every Q >= 0 (Q = 0 included: zero flow, no error) and every
\* dT_air > 0, solve_airflow(Q, dT_air) returns
\* airflow_kgs = Q / (c_p_air * dT_air) and airflow_m3s = airflow_kgs / rho_air;
\* the two equations hold of every result the solver returns.
C1_AirflowValue ==
    Called("solve_airflow") =>
        LET a == call.args
            r == outcome.value
        IN  /\ (DefaultAir /\ a.q_total_w.num >= 0 /\ a.delta_t_air_c.num > 0)
                   => Returned
            /\ Returned =>
                   /\ IsQuotient3(r.airflow_kgs, a.q_total_w, a.air_cp, a.delta_t_air_c)
                   /\ IsQuotient2(r.airflow_m3s, r.airflow_kgs, a.air_density)
                   /\ (a.q_total_w.num = 0 =>
                           r.airflow_kgs = Zero /\ r.airflow_m3s = Zero)

\* the test's case: 100 W over 5 K gives 4/201 kg/s and 400/23919 m3/s
C1_Witness ==
    /\ Called("solve_airflow") /\ Returned /\ DefaultAir
    /\ call.args.q_total_w = Rat(100, 1) /\ call.args.delta_t_air_c = Rat(5, 1)
    /\ outcome.value.airflow_kgs = Rat(4, 201)
    /\ outcome.value.airflow_m3s = Rat(400, 23919)

\* C2: solve_airflow raises InvalidInput whenever dT_air is exactly 0 and
\* solve_coolant_flow whenever dT_water is exactly 0, for every Q (Q = 0
\* included); no SolverResult is returned then.
C2_ZeroDeltaRaises ==
    /\ (Called("solve_airflow") /\ call.args.delta_t_air_c.num = 0)
           => RaisedInvalidInput
    /\ (Called("solve_coolant_flow") /\ call.args.delta_t_water_c.num = 0)
           => RaisedInvalidInput

C2_Witness ==
    /\ Called("solve_coolant_flow")
    /\ call.args.delta_t_water_c = Zero /\ call.args.q_total_w = Zero
    /\ RaisedInvalidInput

\* C3: solve_coil_leaving_temp raises InvalidInput whenever the air mass flow
\* is exactly 0, for every Q and return temperature, and returns a result for
\* every nonzero mass flow.
C3_ZeroMassFlowRaises ==
    Called("solve_coil_leaving_temp") =>
        /\ call.args.airflow_kgs.num = 0 => RaisedInvalidInput
        /\ (call.args.airflow_kgs.num # 0 /\ call.args.air_cp = AIR_CP) => Returned

C3_Witness ==
    /\ Called("solve_coil_leaving_temp")
    /\ call.args.airflow_kgs = Zero /\ call.args.q_total_w = Rat(100, 1)
    /\ RaisedInvalidInput

\* C4: for every Q and every nonzero dT_water, solve_coolant_flow(Q, dT_water)
\* returns coolant_kgs = Q / (c_p_water * dT_water); the equation holds of
\* every result the solver returns.
C4_CoolantValue ==
    Called("solve_coolant_flow") =>
        LET a == call.args
        IN  /\ (a.water_cp = WATER_CP /\ a.delta_t_water_c.num # 0) => Returned
            /\ Returned => IsQuotient3(outcome.value.coolant_kgs, a.q_total_w,
                                       a.water_cp, a.delta_t_water_c)

\* the test's case: 100 W over 2 K gives 25/2093 kg/s
C4_Witness ==
    /\ Called("solve_coolant_flow") /\ Returned
    /\ call.args.water_cp = WATER_CP
    /\ call.args.q_total_w = Rat(100, 1) /\ call.args.delta_t_water_c = Rat(2, 1)
    /\ outcome.value.coolant_kgs = Rat(25, 2093)

\* C5: for every Q, every nonzero air mass flow m and every return
\* temperature T, solve_coil_leaving_temp(Q, m, T) returns
\* coil_leaving_temp_c = T - Q / (m * c_p_air).
C5_CoilValue ==
    Called("solve_coil_leaving_temp") =>
        LET a == call.args
            t == a.return_air_temp_c
            o == outcome.value.coil_leaving_temp_c
            \* the drop T - T_out as a fraction of integers
            drop == [num |-> t.num * o.den - o.num * t.den, den |-> t.den * o.den]
        IN  /\ (a.air_cp = AIR_CP /\ a.airflow_kgs.num # 0) => Returned
            /\ Returned => IsQuotient3(drop, a.q_total_w, a.airflow_kgs, a.air_cp)

\* the test's case: 100 W, 4/201 kg/s, return air at 23.5 gives 18.5
C5_Witness ==
    /\ Called("solve_coil_leaving_temp") /\ Returned
    /\ call.args.air_cp = AIR_CP
    /\ call.args.q_total_w = Rat(100, 1) /\ call.args.airflow_kgs = Rat(4, 201)
    /\ call.args.return_air_temp_c = Rat(47, 2)
    /\ outcome.value.coil_leaving_temp_c = Rat(37, 2)

\* C6: solve_heater_requirement returns
\* heater_required_w = max(0, UA * (T_set - T_amb) - Q_load): never negative,
\* positive exactly when UA * (T_set - T_amb) > Q_load, and 7 for
\* Q_load = 10, UA = 2, T_amb = 15, T_set = 23.5.
C6_HeaterValue ==
    Called("solve_heater_requirement") =>
        LET a == call.args
            q == a.q_load_w
            h == outcome.value.heater_required_w
            \* UA * (T_set - T_amb) and the deficit, as fractions of integers
            lossNum == a.ua_value.num
                           * (a.setpoint_c.num * a.ambient_temp_c.den
                                  - a.ambient_temp_c.num * a.setpoint_c.den)
            lossDen == a.ua_value.den * a.setpoint_c.den * a.ambient_temp_c.den
            defNum == lossNum * q.den - q.num * lossDen
            defDen == lossDen * q.den
        IN  /\ Returned
            /\ h.num >= 0
            /\ (h.num > 0) <=> (lossNum * q.den > q.num * lossDen)
            /\ defNum > 0 => h.num * defDen = defNum * h.den
            /\ defNum <= 0 => h = Zero
            /\ (q = Rat(10, 1) /\ a.ua_value = Rat(2, 1)
                    /\ a.ambient_temp_c = Rat(15, 1) /\ a.setpoint_c = Rat(47, 2))
                   => h = Rat(7, 1)

C6_Witness ==
    /\ Called("solve_heater_requirement") /\ Returned
    /\ call.args.q_load_w = Rat(10, 1) /\ call.args.ua_value = Rat(2, 1)
    /\ call.args.ambient_temp_c = Rat(15, 1) /\ call.args.setpoint_c = Rat(47, 2)
    /\ outcome.value.heater_required_w = Rat(7, 1)

\* C7 as stated: solve_heater_requirement returns exactly 0 whenever
\* ambient_temp_c >= setpoint_c, for any UA value the function accepts and
\* any Q_load >= 0.
C7_ZeroAtWarmAmbientAnyUA ==
    (/\ Called("solve_heater_requirement")
     /\ RGe(call.args.ambient_temp_c, call.args.setpoint_c)
     /\ call.args.q_load_w.num >= 0)
        => (Returned /\ outcome.value.heater_required_w = Zero)

\* C7 (amended): solve_heater_requirement returns exactly 0 whenever
\* ambient_temp_c >= setpoint_c, for any UA >= 0 and any Q_load >= 0.
C7_ZeroAtWarmAmbient ==
    (/\ Called("solve_heater_requirement")
     /\ RGe(call.args.ambient_temp_c, call.args.setpoint_c)
     /\ call.args.ua_value.num >= 0
     /\ call.args.q_load_w.num >= 0)
        => (Returned /\ outcome.value.heater_required_w = Zero)

C7_Witness ==
    /\ Called("solve_heater_requirement") /\ Returned
    /\ call.args.ambient_temp_c = Rat(47, 2) /\ call.args.setpoint_c = Rat(15, 1)
    /\ call.args.ua_value = Rat(2, 1) /\ call.args.q_load_w = Zero
    /\ outcome.value.heater_required_w = Zero

\* The category of a message is decided by the literal text it starts with.
IsSaturated(w) == w[1] = SaturatedPrefix

IsHighUtil(w) == w[1] = HighUtilPrefix

IsHeater(w) == w[1] = HeaterPrefix

Count(P(_), ws) == Cardinality({i \in 1..Len(ws) : P(ws[i])})

Above(x, n) == x.num > n * x.den

\* C8: for every utilization u, compute_warnings emits the saturated message
\* iff u > 100, the high-utilization message iff 90 < u <= 100 (u = 100 is
\* high utilization, not saturated), no utilization message iff u <= 90
\* (u = 90 gives none); never both, and never one of them twice.
C8_UtilizationMessages ==
    Called("compute_warnings") =>
        LET u == call.args.coil_utilization_pct
            sat == Count(IsSaturated, outcome.value)
            high == Count(IsHighUtil, outcome.value)
        IN  /\ Returned
            /\ sat + high <= 1
            /\ (sat = 1) <=> Above(u, 100)
            /\ (high = 1) <=> (Above(u, 90) /\ ~Above(u, 100))
            /\ (sat + high = 0) <=> ~Above(u, 90)

\* u = 100 exactly: the high-utilization message, not the saturated one
C8_Witness ==
    /\ Called("compute_warnings") /\ Returned
    /\ call.args.coil_utilization_pct = Hundred
    /\ call.args.heater_required_w = Zero
    /\ outcome.value = <<HighUtilMsg(Hundred)>>
    /\ outcome.value[1][2] = "100"

\* C9: compute_warnings includes the heater-required message iff
\* heater_required_w > 0, whatever the utilization; a utilization message
\* comes first and the heater message last, so the sequence has length
\* [u > 90] + [heater > 0] (one message for u = 105, heater = 0; one for
\* u = 50, heater = 15; none for u = 50, heater = 0).
C9_HeaterMessage ==
    Called("compute_warnings") =>
        LET u == call.args.coil_utilization_pct
            h == call.args.heater_required_w
            ws == outcome.value
            n == Len(ws)
        IN  /\ Returned
            /\ Count(IsHeater, ws) = (IF h.num > 0 THEN 1 ELSE 0)
            /\ n = (IF Above(u, 90) THEN 1 ELSE 0) + (IF h.num > 0 THEN 1 ELSE 0)
            /\ h.num > 0 => IsHeater(ws[n])
            /\ Above(u, 90) => (IsSaturated(ws[1]) \/ IsHighUtil(ws[1]))
            /\ (u = Rat(105, 1) /\ h = Zero) => (n = 1 /\ IsSaturated(ws[1]))
            /\ (u = Rat(50, 1) /\ h = Rat(15, 1)) => (n = 1 /\ IsHeater(ws[1]))
            /\ (u = Rat(50, 1) /\ h = Zero) => ws = <<>>

\* both messages: the utilization message first, the heater message last
C9_Witness ==
    /\ Called("compute_warnings") /\ Returned
    /\ call.args.coil_utilization_pct = Rat(105, 1)
    /\ call.args.heater_required_w = Rat(15, 1)
    /\ Len(outcome.value) = 2
    /\ IsSaturated(outcome.value[1]) /\ IsHeater(outcome.value[2])
    /\ outcome.value[2][2] = "15.0"

Solvers ==
    {"solve_airflow", "solve_coolant_flow", "solve_coil_leaving_temp",
     "solve_heater_requirement"}

\* C10: every call of the four solvers, for any argument values (the optional
\* air_cp, air_density and water_cp included), either returns a SolverResult
\* or raises InvalidInput; it fails only when dT_air, dT_water or the air
\* mass flow is zero, raises no other kind of error, and
\* solve_heater_requirement never fails.
C10_OnlyInvalidInput ==
    (call.fn \in Solvers /\ outcome.status # "none") =>
        /\ Returned \/ RaisedInvalidInput
        /\ ~Returned =>
               \/ call.fn = "solve_airflow" /\ call.args.delta_t_air_c.num = 0
               \/ call.fn = "solve_coolant_flow" /\ call.args.delta_t_water_c.num = 0
               \/ call.fn = "solve_coil_leaving_temp" /\ call.args.airflow_kgs.num = 0
        /\ call.fn = "solve_heater_requirement" => Returned

\* C13: the paired unit conversions are mutual inverses for every x:
\* m_to_ft(ft_to_m(x)) = x, m3s_to_cfm(cfm_to_m3s(x)) = x,
\* cfm_to_m3s(m3s_to_cfm(x)) = x, gpm_to_lpm(lpm_to_gpm(x)) = x and
\* m3_to_ft3(ft3_to_m3(x)) = x.
C13_RoundTrips ==
    (/\ call.fn = "convert" /\ Returned
     /\ <<call.args.first, call.args.second>> \in
            {<<"ft_to_m", "m_to_ft">>, <<"cfm_to_m3s", "m3s_to_cfm">>,
             <<"m3s_to_cfm", "cfm_to_m3s">>, <<"lpm_to_gpm", "gpm_to_lpm">>,
             <<"ft3_to_m3", "m3_to_ft3">>})
        => outcome.value = call.args.x

\* 100 ft3 to cubic metres and back
C13_Witness ==
    /\ call = ConvertCall(Rat(100, 1), "ft3_to_m3", "m3_to_ft3")
    /\ Returned
    /\ outcome.value = Rat(100, 1)
    /\ ft3_to_m3(Rat(100, 1)) = Rat(55306341, 19531250)

(***************************************************************************)
(* Properties of the calls of concurrent threads (ThreadSpec)              *)
(***************************************************************************)
Finished(t) == threads[t].pc = "done"

HoldsResult(t) ==
    /\ Finished(t) /\ threads[t].call.fn \in SolverNames
    /\ threads[t].ret.status = "returned"

HoldsList(t) == Finished(t) /\ threads[t].call.fn = "compute_warnings"

\* the SolverResult object thread t got
ResultOf(t) == heap[threads[t].ret.value]

AirflowDone(t) == HoldsResult(t) /\ threads[t].call.fn = "solve_airflow"

Greater(x, y) == x.num * y.den > y.num * x.den

Twice(x, y) == x.num * y.den = 2 * y.num * x.den

MoreAirflow(s, t) ==
    /\ Greater(ResultOf(s).fields.airflow_kgs, ResultOf(t).fields.airflow_kgs)
    /\ Greater(ResultOf(s).fields.airflow_m3s, ResultOf(t).fields.airflow_m3s)

\* C11 as stated: for every fixed Q >= 0 and any two rises 0 < a < b,
\* solve_airflow(Q, a) requires strictly more airflow (kg/s and m3/s) than
\* solve_airflow(Q, b).
C11_MonotoneFromZeroLoad ==
    \A s \in DOMAIN threads, t \in DOMAIN threads :
        (/\ AirflowDone(s) /\ AirflowDone(t)
         /\ threads[s].call.args.q_total_w = threads[t].call.args.q_total_w
         /\ threads[s].call.args.q_total_w.num >= 0
         /\ threads[s].call.args.delta_t_air_c.num > 0
         /\ Greater(threads[t].call.args.delta_t_air_c,
                    threads[s].call.args.delta_t_air_c))
            => MoreAirflow(s, t)

\* C11 (amended): for every fixed Q > 0 and any two rises 0 < a < b,
\* solve_airflow(Q, a) requires strictly more airflow (kg/s and m3/s) than
\* solve_airflow(Q, b).
C11_Monotone ==
    \A s \in DOMAIN threads, t \in DOMAIN threads :
        (/\ Finished(s) /\ Finished(t)
         /\ threads[s].call.fn = "solve_airflow"
         /\ threads[t].call.fn = "solve_airflow"
         /\ threads[s].call.args.q_total_w = threads[t].call.args.q_total_w
         /\ threads[s].call.args.q_total_w.num > 0
         /\ threads[s].call.args.delta_t_air_c.num > 0
         /\ Greater(threads[t].call.args.delta_t_air_c,
                    threads[s].call.args.delta_t_air_c))
            => (HoldsResult(s) /\ HoldsResult(t) /\ MoreAirflow(s, t))

\* 3 W over 1 K against 3 W over 2 K
C11_Witness ==
    /\ threads[1].call = AirflowCall(Rat(3, 1), Rat(1, 1), AIR_CP, AIR_DENSITY)
    /\ threads[2].call = AirflowCall(Rat(3, 1), Rat(2, 1), AIR_CP, AIR_DENSITY)
    /\ HoldsResult(1) /\ HoldsResult(2)
    /\ ResultOf(1).fields.airflow_kgs = Rat(1, 335)
    /\ ResultOf(2).fields.airflow_kgs = Rat(1, 670)

\* C12: for every fixed nonzero dT_air and every Q, solve_airflow(2Q, dT_air)
\* returns exactly twice the airflow_kgs and twice the airflow_m3s of
\* solve_airflow(Q, dT_air).
C12_Linear ==
    \A s \in DOMAIN threads, t \in DOMAIN threads :
        (/\ Finished(s) /\ Finished(t)
         /\ threads[s].call.fn = "solve_airflow"
         /\ threads[t].call.fn = "solve_airflow"
         /\ threads[s].call.args.delta_t_air_c = threads[t].call.args.delta_t_air_c
         /\ threads[s].call.args.delta_t_air_c.num # 0
         /\ Twice(threads[t].call.args.q_total_w, threads[s].call.args.q_total_w))
            => /\ HoldsResult(s) /\ HoldsResult(t)
               /\ Twice(ResultOf(t).fields.airflow_kgs, ResultOf(s).fields.airflow_kgs)
               /\ Twice(ResultOf(t).fields.airflow_m3s, ResultOf(s).fields.airflow_m3s)

\* 1 W and 2 W over 2 K
C12_Witness ==
    /\ threads[1].call = AirflowCall(Rat(1, 1), Rat(2, 1), AIR_CP, AIR_DENSITY)
    /\ threads[2].call = AirflowCall(Rat(2, 1), Rat(2, 1), AIR_CP, AIR_DENSITY)
    /\ HoldsResult(1) /\ HoldsResult(2)
    /\ ResultOf(1).fields.airflow_kgs = Rat(1, 2010)
    /\ ResultOf(2).fields.airflow_kgs = Rat(1, 1005)

\* what thread t got, by value
View(t) ==
    IF threads[t].ret.status = "raised" THEN threads[t].ret
    ELSE IF threads[t].call.fn \in SolverNames
         THEN [fields |-> ResultOf(t).fields,
               warnings |-> heap[ResultOf(t).warnings].items]
         ELSE heap[threads[t].ret.value].items

\* what the call of thread t gives when it runs alone, with the warnings its
\* caller attached since
Alone(t) ==
    LET o == Apply(threads[t].call)
    IN  IF o.status = "raised" THEN o
        ELSE IF threads[t].call.fn \in SolverNames
             THEN [fields |-> [f \in FloatFields |-> o.value[f]],
                   warnings |-> o.value.warnings
                                    \o [i \in 1..threads[t].attached |-> AttachedMsg]]
             ELSE o.value

\* C15: the solvers and compute_warnings use no state outside their arguments
\* and return value: under any interleaving of calls made by concurrent
\* threads each call returns what it returns when it runs alone, and two
\* calls with identical arguments return equal results.
C15_Interleaving ==
    /\ \A t \in DOMAIN threads : Finished(t) => View(t) = Alone(t)
    /\ \A s \in DOMAIN threads, t \in DOMAIN threads :
           (/\ Finished(s) /\ Finished(t)
            /\ threads[s].call = threads[t].call
            /\ threads[s].attached = threads[t].attached)
               => View(s) = View(t)

\* two compute_warnings calls of two threads, each with its own messages
C15_Witness ==
    /\ threads[1].call = WarningsCall(Rat(105, 1), Rat(15, 1))
    /\ threads[2].call = WarningsCall(Rat(95, 1), Zero)
    /\ Finished(1) /\ Finished(2)
    /\ threads[1].ret.value = 2 /\ threads[2].ret.value = 1
    /\ Len(heap[2].items) = 2 /\ Len(heap[1].items) = 1
    /\ IsHighUtil(heap[1].items[1])

WarningsOf(h, t) == h[h[threads[t].ret.value].warnings].items

\* C16: each solver call returns a fresh SolverResult that shares no mutable
\* part with another result: its warnings list is a distinct, initially empty
\* list, attaching a warning to one result leaves every other result and its
\* warnings unchanged, and no solver or compute_warnings call modifies a
\* result (or a list of messages) returned earlier.
C16_FreshResults ==
    [][/\ \A s \in DOMAIN threads, t \in DOMAIN threads :
              (s # t /\ HoldsResult(s)' /\ HoldsResult(t)')
                  => /\ threads'[s].ret.value # threads'[t].ret.value
                     /\ heap'[threads'[s].ret.value].warnings
                            # heap'[threads'[t].ret.value].warnings
       /\ \A t \in DOMAIN threads :
              (~HoldsResult(t) /\ HoldsResult(t)')
                  => heap'[heap'[threads'[t].ret.value].warnings].items = <<>>
       /\ \A t \in DOMAIN threads :
              HoldsResult(t)
                  => /\ threads'[t].ret = threads[t].ret
                     /\ heap'[threads[t].ret.value] = heap[threads[t].ret.value]
                     /\ WarningsOf(heap', t) =
                            IF threads'[t].attached = threads[t].attached
                            THEN WarningsOf(heap, t)
                            ELSE Append(WarningsOf(heap, t), AttachedMsg)
       /\ \A t \in DOMAIN threads :
              HoldsList(t)
                  => /\ threads'[t].ret = threads[t].ret
                     /\ heap'[threads[t].ret.value] = heap[threads[t].ret.value]
      ]_vars

\* two results, a warning attached to the first only
C16_Witness ==
    /\ HoldsResult(1) /\ HoldsResult(2)
    /\ threads[1].attached = 1 /\ threads[2].attached = 0
    /\ WarningsOf(heap, 1) = <<AttachedMsg>>
    /\ WarningsOf(heap, 2) = <<>>
    /\ ResultOf(1).warnings # ResultOf(2).warnings

(***************************************************************************)
(* Properties of the passes of the application (PassSpec)                  *)
(***************************************************************************)
Built(p) == p.cooling.status = "returned"

Ended(p) == p.pc \in {"done", "failed"}

Within(x, lo, hi) == RLe(lo, x) /\ RLe(x, hi)

\* the entities of pass p are those of defaults.py, whatever the cooling type
DefaultCase(p) ==
    /\ Built(p)
    /\ p.enclosure.value = default_enclosure
    /\ p.loads.value = default_heat_loads
    /\ p.ambient.value = default_ambient
    /\ [p.cooling.value EXCEPT !.cooling_type = "air_coil"] = default_cooling_plant

\* C14: in the default case (4 x 10 x 2.5 ft, 100 W + 0 W, dT_air = 5,
\* dT_water = 2, ambient = setpoint = 23.5, UA = 2) the volume is within 1% of
\* 2.83 m3 and the solver sequence runs to its end with an airflow of 35 to
\* 42 CFM, a coolant flow within 5% of 0.72 L/min, heater_required_w = 0 and
\* a coil leaving temperature of 18.5.
C14_DefaultCase ==
    DefaultCase(pass)
        => /\ Within(volume_m3(pass.enclosure.value),
                     Rat(28017, 10000), Rat(28583, 10000))
           /\ pass.pc # "failed"
           /\ pass.pc = "done"
                  => /\ Within(pass.cfm.value, Rat(35, 1), Rat(42, 1))
                     /\ Within(pass.lpm.value, Rat(684, 1000), Rat(756, 1000))
                     /\ pass.heater_result.value.heater_required_w = Zero
                     /\ pass.coil_result.value.coil_leaving_temp_c = Rat(37, 2)

\* the pass of the initial widget values at its end
C14_Witness ==
    /\ pass.widgets = DefaultWidgets("AIRFLOW", "air_coil")
    /\ DefaultCase(pass)
    /\ pass.pc = "done"
    /\ volume_m3(pass.enclosure.value) = Rat(55306341, 19531250)
    /\ pass.cfm.value = Rat(847552, 23919)
    /\ pass.lpm.value = Rat(750000, 1044407)

NumericInputs(w) == [w EXCEPT !.solve_mode = "", !.cooling_type = ""]

SolverOutputs ==
    {"air_result", "coolant_result", "coil_result", "heater_result",
     "coil_utilization", "warnings", "error"}

Same(o1, o2) ==
    /\ o1.status = o2.status
    /\ o1.exc = o2.exc
    /\ o1.status = "returned" => o1.value = o2.value

\* C17: two passes with identical numeric inputs that differ in solve mode
\* and/or cooling type end alike, with identical airflow, coolant flow, coil
\* leaving temperature, heater power, coil utilization and warning sequence.
C17_ModeIndependence ==
    (/\ prev.pc # "none"
     /\ Ended(pass)
     /\ NumericInputs(pass.widgets) = NumericInputs(prev.widgets))
        => /\ pass.pc = prev.pc
           /\ \A name \in SolverOutputs : Same(pass[name], prev[name])

\* dT_air = 0.1 entered, then the solve mode changed to the one that
\* disables that input, and the cooling type changed
C17_Witness ==
    /\ prev.pc = "done" /\ pass.pc = "done"
    /\ prev.widgets.solve_mode = "HEATER"
    /\ pass.widgets.solve_mode = "AIRFLOW"
    /\ prev.widgets.cooling_type = "air_coil"
    /\ pass.widgets.cooling_type = "hybrid"
    /\ pass.widgets.delta_t_air = Rat(1, 10)
    /\ "delta_t_air" \in pass.disabled /\ prev.disabled = {}
    /\ Len(pass.warnings.value) = 1

\* ACH * V * rho * c_p / 3600 on the enclosure's own fields
PerHour(ach, e) ==
    RDiv(RMul(RMul(ach, volume_m3(e)), RMul(e.air_density, e.air_cp)),
         Rat(3600, 1))

\* C18: in ACH mode the UA stored in AmbientConditions and passed to the
\* heater solver is ACH * volume_m3 * air_density * air_cp / 3600 of the
\* enclosure; in direct mode it is the entered UA value unchanged.
C18_UaValue ==
    Built(pass)
        => /\ pass.ambient.value.ua_value =
                  IF pass.widgets.ua_mode = AchMode
                  THEN PerHour(pass.widgets.ach, pass.enclosure.value)
                  ELSE pass.widgets.ua
           /\ \A i \in DOMAIN pass.calls :
                  pass.calls[i].fn = "solve_heater_requirement"
                      => pass.calls[i].args.ua_value = pass.ambient.value.ua_value

\* 0.5 air changes per hour of the 1.22 x 3.05 x 0.76 m enclosure
C18_Witness ==
    /\ pass.pc = "done"
    /\ pass.widgets.ua_mode = AchMode /\ pass.widgets.ach = Rat(1, 2)
    /\ pass.ambient.value.ua_value = Rat(563683127, 1200000000)
    /\ \E i \in DOMAIN pass.calls :
           /\ pass.calls[i].fn = "solve_heater_requirement"
           /\ pass.calls[i].args.ua_value = Rat(563683127, 1200000000)

FixedOrder ==
    <<"solve_airflow", "solve_coolant_flow", "solve_coil_leaving_temp",
      "solve_heater_requirement", "coil_utilization", "compute_warnings">>

\* C19: the calls of a pass are made in the order airflow, coolant, coil
\* temperature, heater, utilization, warnings; solve_coil_leaving_temp is
\* called only after solve_airflow of the pass has returned, with exactly
\* that result's airflow_kgs as its mass flow.
C19_FixedOrder ==
    /\ Len(pass.calls) <= Len(FixedOrder)
    /\ \A i \in DOMAIN pass.calls :
           /\ pass.calls[i].fn = FixedOrder[i]
           /\ pass.calls[i].fn = "solve_coil_leaving_temp"
                  => /\ pass.air_result.status = "returned"
                     /\ pass.calls[i].args.airflow_kgs =
                            pass.air_result.value.airflow_kgs
    /\ pass.pc = "done" => Len(pass.calls) = Len(FixedOrder)

C19_Witness ==
    /\ pass.pc = "done"
    /\ Len(pass.calls) = 6
    /\ pass.air_result.value.airflow_kgs = Rat(4, 201)
    /\ pass.calls[3].fn = "solve_coil_leaving_temp"
    /\ pass.calls[3].args.airflow_kgs = Rat(4, 201)

WidePositive(x) == WideLess(Wide(Zero), x)

WideSame(x, y) == ~WideLess(x, y) /\ ~WideLess(y, x)

Positive(x) == x.num > 0

EnclosureInvariant(e) ==
    /\ Positive(e.length_m) /\ Positive(e.width_m) /\ Positive(e.height_m)
    /\ WidePositive(thermal_capacitance(e))

\* C20: every Enclosure that exists has strictly positive length_m, width_m
\* and height_m and a strictly positive thermal_capacitance
\* (air_density * volume_m3 * air_cp + internal_thermal_mass).
C20_EnclosureInvariant ==
    /\ pass.enclosure.status = "returned" => EnclosureInvariant(pass.enclosure.value)
    /\ prev.pc # "none" => EnclosureInvariant(prev.enclosure.value)
    /\ EnclosureInvariant(default_enclosure)

\* the smallest enclosure the inputs accept: 1 cm each way, no internal mass
C20_Witness ==
    /\ pass.enclosure.status = "returned"
    /\ pass.enclosure.value.length_m = Rat(1, 100)
    /\ pass.enclosure.value.internal_thermal_mass = Zero
    /\ volume_m3(pass.enclosure.value) = Rat(1, 1000000)
    /\ WideSame(thermal_capacitance(pass.enclosure.value),
                Wide(Rat(23919, 20000000)))
    /\ WideLess(Wide(Rat(53386, 1)), thermal_capacitance(default_enclosure))
    /\ WideLess(thermal_capacitance(default_enclosure), Wide(Rat(53387, 1)))

NonzeroDeltas(c) == c.delta_t_air_c.num # 0 /\ c.delta_t_water_c.num # 0

CallsOf(p, fn) == {i \in DOMAIN p.calls : p.calls[i].fn = fn}

\* C21: every CoolingPlant that exists has delta_t_air_c # 0 and
\* delta_t_water_c # 0, so solve_airflow and solve_coolant_flow, called with
\* the plant's values, never fail their precondition.
C21_NonzeroDeltas ==
    /\ Built(pass) => NonzeroDeltas(pass.cooling.value)
    /\ prev.pc # "none" => NonzeroDeltas(prev.cooling.value)
    /\ NonzeroDeltas(default_cooling_plant)
    /\ \A i \in CallsOf(pass, "solve_airflow") :
           /\ pass.calls[i].args.delta_t_air_c = pass.cooling.value.delta_t_air_c
           /\ pass.air_result.status = "returned"
    /\ \A i \in CallsOf(pass, "solve_coolant_flow") :
           /\ pass.calls[i].args.delta_t_water_c = pass.cooling.value.delta_t_water_c
           /\ pass.coolant_result.status = "returned"

\* the smallest air-side dT the input accepts, in the mode that disables it
C21_Witness ==
    /\ pass.widgets.solve_mode = "AIRFLOW"
    /\ "delta_t_air" \in pass.disabled
    /\ pass.cooling.status = "returned"
    /\ pass.cooling.value.delta_t_air_c = Rat(1, 10)
    /\ CallsOf(pass, "solve_airflow") = {1}
    /\ CallsOf(pass, "solve_coolant_flow") = {2}
    /\ pass.coolant_result.status = "returned"

Sum(a, b) == Rat(a.num * b.den + b.num * a.den, a.den * b.den)

\* the load argument of a logged call, whatever its name
LoadOf(c) ==
    IF c.fn = "solve_heater_requirement" THEN c.args.q_load_w ELSE c.args.q_total_w

TakesLoad(c) == c.fn # "compute_warnings"

\* C22: within a pass one total load, baseline_load_w + additional_loads_w of
\* the pass's HeatLoads, is the Q of all four solver calls and of the coil
\* utilization; no call sees another load.
C22_SingleLoad ==
    pass.q_total.status = "returned"
        => /\ pass.q_total.value = Sum(pass.loads.value.baseline_load_w,
                                       pass.loads.value.additional_loads_w)
           /\ \A i \in DOMAIN pass.calls :
                  TakesLoad(pass.calls[i]) => LoadOf(pass.calls[i]) = pass.q_total.value

\* 480 W + 20 W: five calls with Q = 500
C22_Witness ==
    /\ pass.pc = "done"
    /\ pass.loads.value = HeatLoads(Rat(480, 1), Rat(20, 1))
    /\ pass.q_total.value = Rat(500, 1)
    /\ {i \in DOMAIN pass.calls : TakesLoad(pass.calls[i])} = 1..5
    /\ \A i \in 1..5 : LoadOf(pass.calls[i]) = Rat(500, 1)

EntityNames == {"enclosure", "loads", "ambient", "cooling"}

\* C23: from their construction to the end of the pass no field of the
\* Enclosure, HeatLoads, CoolingPlant and AmbientConditions changes, whatever
\* step is taken; a new pass starts without entities and builds its own,
\* and leaves those of the pass before as they were.
C23_EntitiesFrozen ==
    [][/\ pass'.n = pass.n
              => \A name \in EntityNames :
                     /\ pass[name].status = "returned" => Same(pass'[name], pass[name])
                     /\ prev.pc # "none" => Same(prev'[name], prev[name])
       /\ pass'.n # pass.n
              => \A name \in EntityNames :
                     /\ pass'[name].status = "none"
                     /\ Same(prev'[name], pass[name])
      ]_vars

\* a second pass at its end, its entities built anew from the same inputs
C23_Witness ==
    /\ pass.n = 2 /\ pass.pc = "done" /\ prev.pc = "done"
    /\ pass.loads.value = HeatLoads(Rat(480, 1), Rat(20, 1))
    /\ \A name \in EntityNames \ {"cooling"} :
           /\ pass[name].status = "returned"
           /\ pass[name].value = prev[name].value
    /\ pass.cooling.value.cooling_type # prev.cooling.value.cooling_type

\* chilled_water_temp_c + coil_approach_temp_c of a plant
ApproachFloor(c) == RAdd(c.chilled_water_temp_c, c.coil_approach_temp_c)

\* T - Q / (m * c_p) of a logged coil call
LeavingTemp(c) ==
    RSub(c.args.return_air_temp_c,
         RDiv(c.args.q_total_w, RMul(c.args.airflow_kgs, c.args.air_cp)))

KnownMessage(w) == IsSaturated(w) \/ IsHighUtil(w) \/ IsHeater(w)

\* C24: solve_coil_leaving_temp does not check the coil approach constraint:
\* whenever the leaving temperature it computes is below chilled_water_temp_c
\* + coil_approach_temp_c, it still returns that temperature without error,
\* and the warnings of the pass hold no message about it.
C24_ApproachUnchecked ==
    \A i \in CallsOf(pass, "solve_coil_leaving_temp") :
        (/\ pass.calls[i].args.airflow_kgs.num # 0
         /\ RLt(LeavingTemp(pass.calls[i]), ApproachFloor(pass.cooling.value)))
            => /\ pass.coil_result.status = "returned"
               /\ pass.coil_result.value.coil_leaving_temp_c = LeavingTemp(pass.calls[i])
               /\ pass.pc # "failed"
               /\ pass.warnings.status = "returned"
                      => \A k \in DOMAIN pass.warnings.value :
                             KnownMessage(pass.warnings.value[k])

\* ambient 23.5, dT_air = 10, chilled water 15, approach 2: 13.5 < 17
C24_Witness ==
    /\ pass.pc = "done"
    /\ pass.ambient.value.temperature_c = Rat(47, 2)
    /\ pass.cooling.value.delta_t_air_c = Rat(10, 1)
    /\ ApproachFloor(pass.cooling.value) = Rat(17, 1)
    /\ pass.coil_result.value.coil_leaving_temp_c = Rat(27, 2)
    /\ pass.q_total.value = Rat(100, 1)
    /\ pass.warnings.value = <<>>
    /\ pass.results_panel.value.messages = <<>>

(***************************************************************************)
(* The airflow and coil solvers composed (Spec)                            *)
(***************************************************************************)
Difference(a, b) == Rat(a.num * b.den - b.num * a.den, a.den * b.den)

Composed == call.fn = "airflow_then_coil" /\ outcome.status \in {"returned", "raised"}

\* C25: for every nonzero Q, every nonzero dT_air and every return
\* temperature T, solve_coil_leaving_temp(Q, solve_airflow(Q, dT_air)
\* .airflow_kgs, T) returns T - dT_air, whatever Q is.
C25_LoadCancels ==
    (/\ Composed
     /\ call.args.q_total_w.num # 0
     /\ call.args.delta_t_air_c.num # 0)
        => /\ Returned
           /\ outcome.value.coil_leaving_temp_c =
                  Difference(call.args.return_air_temp_c, call.args.delta_t_air_c)

\* 23.5 - 5.0 = 18.5 at 100 W
C25_Witness ==
    /\ call = AirflowThenCoilCall(Rat(100, 1), Rat(5, 1), Rat(47, 2))
    /\ Returned
    /\ outcome.value.coil_leaving_temp_c = Rat(37, 2)

(***************************************************************************)
(* Properties of the passes of the application, continued (PassSpec)       *)
(***************************************************************************)
\* C26: for every input set the panels accept, the airflow_kgs that the
\* solve sequence passes to solve_coil_leaving_temp is nonzero, and the pass
\* (airflow, coolant, coil temperature, heater, utilization, warnings) ends
\* without any solver raising InvalidInput.
C26_PassCompletes ==
    /\ \A i \in CallsOf(pass, "solve_coil_leaving_temp") :
           pass.calls[i].args.airflow_kgs.num # 0
    /\ pass.pc # "failed"
    /\ pass.error.status # "raised"

\* C27: the heater solver is called with setpoint_c equal to ambient_temp_c,
\* the ambient temperature of the pass; so for every accepted input
\* heater_required_w is 0 and neither the warnings nor the styled messages
\* of the pass hold the heater-required message.
C27_NoHeater ==
    /\ \A i \in CallsOf(pass, "solve_heater_requirement") :
           /\ pass.calls[i].args.setpoint_c = pass.calls[i].args.ambient_temp_c
           /\ pass.calls[i].args.ambient_temp_c = pass.ambient.value.temperature_c
           /\ pass.heater_result.status = "returned"
           /\ pass.heater_result.value.heater_required_w = Zero
    /\ pass.warnings.status = "returned"
           => \A k \in DOMAIN pass.warnings.value : ~IsHeater(pass.warnings.value[k])
    /\ pass.results_panel.status = "returned"
           => \A k \in DOMAIN pass.results_panel.value.messages :
                  pass.results_panel.value.messages[k].style # "info"

\* a cold room (15 degrees) with UA = 2 W/K and a load of 9.5 W
C27_Witness ==
    /\ pass.pc = "done"
    /\ pass.ambient.value.temperature_c = Rat(15, 1)
    /\ pass.ambient.value.ua_value = Rat(2, 1)
    /\ pass.q_total.value = Rat(19, 2)
    /\ pass.calls[4] = HeaterCall(Rat(19, 2), Rat(2, 1), Rat(15, 1), Rat(15, 1))
    /\ pass.heater_result.value.heater_required_w = Zero
    /\ Len(pass.warnings.value) = 1

LoadAbove(q, k, cap) == 10 * q.num * cap.den > k * cap.num * q.den

\* C28: the coil utilization of a pass is Q_total / coil_max_capacity_w * 100
\* with a nonzero denominator; the pass reports the saturated message exactly
\* when Q_total > coil_max_capacity_w, the high-utilization message exactly
\* when 0.9 * coil_max_capacity_w < Q_total <= coil_max_capacity_w, and no
\* utilization message otherwise.
C28_UtilizationReport ==
    LET q == pass.q_total.value
        cap == pass.cooling.value.coil_max_capacity_w
        u == pass.coil_utilization.value
        ws == pass.warnings.value
    IN  /\ CallsOf(pass, "coil_utilization") # {}
               => /\ cap.num # 0
                  /\ pass.coil_utilization.status = "returned"
                  /\ u.num * cap.num * q.den = 100 * q.num * cap.den * u.den
        /\ pass.warnings.status = "returned"
               => /\ Count(IsSaturated, ws) = IF LoadAbove(q, 10, cap) THEN 1 ELSE 0
                  /\ Count(IsHighUtil, ws) =
                         IF LoadAbove(q, 9, cap) /\ ~LoadAbove(q, 10, cap) THEN 1 ELSE 0
                  /\ Len(ws) = Count(IsSaturated, ws) + Count(IsHighUtil, ws)
                                   + Count(IsHeater, ws)

\* 450 W on a 500 W coil: exactly 90 %, no message
C28_Witness ==
    /\ pass.pc = "done"
    /\ pass.q_total.value = Rat(450, 1)
    /\ pass.cooling.value.coil_max_capacity_w = Rat(500, 1)
    /\ pass.coil_utilization.value = Ninety
    /\ pass.warnings.value = <<>>

(***************************************************************************)
(* The messages of compute_warnings as the results panel styles them (Spec)*)
(***************************************************************************)
StyleOf(w) ==
    IF IsSaturated(w) THEN "error" ELSE IF IsHeater(w) THEN "info" ELSE "warning"

\* C29: the results panel styles every message compute_warnings can produce
\* according to its category: the saturated message as error, the
\* heater-required message as info, the high-utilization message as warning;
\* no message of one category matches the text test of another.
C29_SeverityFromText ==
    (call.fn = "styled_warnings" /\ Returned)
        => LET ws == compute_warnings(call.args.coil_utilization_pct,
                                      call.args.heater_required_w).value
           IN  /\ Len(outcome.value) = Len(ws)
               /\ \A k \in DOMAIN ws :
                      /\ KnownMessage(ws[k])
                      /\ outcome.value[k].text = Text(ws[k])
                      /\ outcome.value[k].style = StyleOf(ws[k])
                      /\ In("SATURATED", upper(outcome.value[k].text)) <=> IsSaturated(ws[k])
                      /\ In("heater", lower(outcome.value[k].text)) <=> IsHeater(ws[k])

\* a saturated coil and a heater at once: an error, then an info
C29_Witness ==
    /\ call = StyledWarningsCall(Rat(105, 1), Rat(15, 1))
    /\ Returned
    /\ outcome.value =
           <<[style |-> "error",
              text |-> "COOLING SATURATED: Coil utilization at 105%. Increase coil capacity or reduce heat load."],
             [style |-> "info",
              text |-> "Heater required: 15.0 W to maintain setpoint under current ambient conditions."]>>

(***************************************************************************)
(* The coil-utilization card of the results panel (PassSpec)               *)
(***************************************************************************)
\* C30: in every pass with coil utilization <= 100 the wattage shown on the
\* coil-utilization card ("of N W capacity") is the total heat load Q_total
\* of that pass, whatever the coil capacity; and the width of the
\* utilization bar lies in [0, 100].
C30_CardShowsLoad ==
    (pass.results_panel.status = "returned"
        /\ RLe(pass.coil_utilization.value, Hundred))
        => /\ pass.results_panel.value.delta
                  = <<"of ", Fmt0(pass.q_total.value), " W capacity">>
           /\ RLe(Zero, pass.results_panel.value.bar_width)
           /\ RLe(pass.results_panel.value.bar_width, Hundred)

====
